---- MODULE Spec2Model ----
(***************************************************************************)
(* Job claim protocol, job state machine and result ingestion of MITuna    *)
(* (tuna/miopen/miopen_lib.py, tuna/utils/db_utility.py).                  *)
(*                                                                         *)
(* The job table is the shared store.  Claimants run the claim query       *)
(* (get_job_objs -> compose_work_objs -> gen_select_objs), which is a      *)
(* SELECT ... ORDER BY retries,config [LIMIT n] FOR UPDATE SKIP LOCKED,    *)
(* and the result processors (process_compile_results,                     *)
(* process_eval_results) write the next job state.  The rocMLIR worker     *)
(* (tuna/rocmlir/rocmlir_worker.py) claims one job per step and runs it    *)
(* with a bounded number of attempts.                                      *)
(***************************************************************************)
EXTENDS Integers, Sequences, FiniteSets, TLC

\* ---------------------------------------------------------------- bounds
NumJobs == 3
NumClaimants == 2
NumLifeJobs == 1
MaxRedeliveries == 1
NumTuningJobs == 2
NumMachines == 2
MaxSlots == 2
NumPairs == 2
\* NUM_SQL_RETRIES is imported from tuna/utils/metadata.py: the number of calls
\* session_retry makes at most
NUM_SQL_RETRIES == 3

\* ------------------------------------------------------ program constants
MAX_ERRORED_JOB_RETRIES == 3
max_job_retries == 3

Jobs == 1..NumJobs
Claimants == 1..NumClaimants
TuningJobs == 1..NumTuningJobs
NoOne == 0

InFlightStates == {"compile_start", "eval_start", "running"}

Min(a, b) == IF a < b THEN a ELSE b
Range(s) == {s[i] : i \in DOMAIN s}

\* ------------------------------------------------------------- variables
VARIABLES
  job,       \* the job table: job id -> row
  job0,      \* the job table as it was loaded
  lockedBy,  \* row lock of each job row: the claimant whose open transaction holds it
  claim,     \* per claimant: position in the claim, its arguments, the rows returned
  args,      \* arguments shared by the claimants of one polling round
  ctxs,      \* contexts dispatched and not yet acknowledged
  redelivered, \* number of results delivered again so far
  holder,    \* per job: claimants that claimed it since the last ingestion for it
  last,      \* the last operation that completed
  scen,      \* per job: results of its eval ingestions, or "void"
  cres,      \* per job: result of its compile ingestion, "none" before it, or "void"
  rjob,      \* the job table of the rocMLIR workers: job id -> row
  worker,    \* per rocMLIR worker: its position in step, its job and the attempt
  results,   \* the results table of the rocMLIR workers: jobs that have a row
  sr,        \* one call of session_retry: what its calls meet, and its outcome
  pool,      \* one composition of workers: its inputs, its outcome, the joins
  built,     \* one run of the context builder: the claimed batch and the contexts
  load       \* the job table the loaders fill, and the position of each loader

vars == <<job, job0, lockedBy, claim, args, ctxs, redelivered, holder, last, scen, cres,
          rjob, worker, results, sr, pool, built, load>>

\* the state of session_retry, of the worker-pool composer, of the context
\* builder and of the loaders
others == <<sr, pool, built, load>>

\* ------------------------------------------------------ update_operation
\* fetch_state / set_state / operation chosen from args.fin_steps
update_operation_refetch(fin_steps, update_applicability) ==
  IF Range(fin_steps) \cap {"miopen_find_compile", "miopen_perf_compile"} # {}
    THEN [fetch_state |-> {"new", "compile_start"}, set_state |-> "compile_start",
          operation |-> "COMPILE"]
    ELSE [fetch_state |-> {"new", "compiled", "eval_start"}, set_state |-> "eval_start",
          operation |-> "EVAL"]

update_operation_m(fin_steps, update_applicability) ==
  IF Range(fin_steps) \cap {"miopen_find_compile", "miopen_perf_compile"} # {}
    THEN [fetch_state |-> {"new"}, set_state |-> "compile_start", operation |-> "COMPILE"]
    ELSE [fetch_state |-> {"compiled"}, set_state |-> "eval_start", operation |-> "EVAL"]

update_operation_reclaim(fin_steps, update_applicability) ==
  IF Range(fin_steps) \cap {"miopen_find_compile", "miopen_perf_compile"} # {}
    THEN [fetch_state |-> {"new"}, set_state |-> "compile_start", operation |-> "COMPILE"]
    ELSE [fetch_state |-> {"new", "compiled", "eval_start"}, set_state |-> "eval_start",
          operation |-> "EVAL"]

update_operation(fin_steps, update_applicability) ==
  LET steps == Range(fin_steps)
      base  == IF fin_steps # <<>>
                 THEN IF steps \cap {"miopen_find_compile", "miopen_perf_compile"} # {}
                        THEN [fetch_state |-> {"new"}, set_state |-> "compile_start",
                              operation |-> "COMPILE"]
                        ELSE IF steps \cap {"miopen_find_eval", "miopen_perf_eval"} # {}
                               THEN [fetch_state |-> {"new", "compiled"},
                                     set_state |-> "eval_start", operation |-> "EVAL"]
                               ELSE [fetch_state |-> {}, set_state |-> "None",
                                     operation |-> "None"]
                 ELSE [fetch_state |-> {}, set_state |-> "None", operation |-> "None"]
  IN  [base EXCEPT !.fetch_state = IF update_applicability THEN @ \cup {"new"} ELSE @]

\* ------------------------------------------------------------ the claim
\* One condition of the WHERE clause, evaluated on a row.
EvalCond(cond, row) ==
  CASE cond.col = "session"  -> row.session = cond.val
    [] cond.col = "valid"    -> row.valid = cond.val
    [] cond.col = "reason"   -> row.reason = cond.val
    [] cond.col = "retries<" -> row.retries < cond.val
    [] cond.col = "state in" -> row.state \in cond.val
    [] cond.col = "fin_step like" -> cond.val \in row.fin_step
    [] cond.col = "fin_step" -> row.fin_step = cond.val

\* get_job_objs: the conditions on session, valid, label, retries and state
get_job_objs_conds_nolabel(session_id, find_state, label) ==
  << [col |-> "session", val |-> session_id], [col |-> "valid", val |-> 1],
     [col |-> "retries<", val |-> max_job_retries],
     [col |-> "state in", val |-> find_state] >>

get_job_objs_conds(session_id, find_state, label) ==
  << [col |-> "session", val |-> session_id], [col |-> "valid", val |-> 1] >>
  \o (IF label # "" THEN << [col |-> "reason", val |-> label] >> ELSE << >>)
  \o << [col |-> "retries<", val |-> max_job_retries],
        [col |-> "state in", val |-> find_state] >>

\* compose_work_objs: the fin-step condition appended to conds
compose_work_objs_conds_m(conds, fin_steps) == conds

compose_work_objs_conds_last(conds, fin_steps) ==
  IF fin_steps # <<>>
    THEN Append(conds, [col |-> "fin_step like", val |-> fin_steps[Len(fin_steps)]])
    ELSE Append(conds, [col |-> "fin_step", val |-> {"not_fin"}])

compose_work_objs_conds(conds, fin_steps) ==
  IF fin_steps # <<>>
    THEN Append(conds, [col |-> "fin_step like", val |-> fin_steps[1]])
    ELSE Append(conds, [col |-> "fin_step", val |-> {"not_fin"}])

\* ' AND '.join(conds)
Matches(conds, row) == \A i \in DOMAIN conds : EvalCond(conds[i], row)

\* ORDER BY retries,config ASC
OrderByRetries(tab, a, b) == tab[a].retries <= tab[b].retries

OrderBy(tab, a, b) ==
  \/ tab[a].retries < tab[b].retries
  \/ tab[a].retries = tab[b].retries /\ tab[a].config <= tab[b].config

\* every order of the row set S the ORDER BY allows (ties in any order)
Ordered(tab, S) ==
  {s \in [1..Cardinality(S) -> S] :
      /\ \A i, k \in DOMAIN s : i # k => s[i] # s[k]
      /\ \A i \in DOMAIN s : i + 1 \in DOMAIN s => OrderBy(tab, s[i], s[i + 1])}

\* LIMIT claim_num, when claim_num is given
LimitNoCap(s, claim_num) == s

Limit(s, claim_num) ==
  IF claim_num # 0 THEN SubSeq(s, 1, Min(claim_num, Len(s))) ELSE s

\* FOR UPDATE SKIP LOCKED: rows locked by another transaction are passed over
SkipLockedNone(locks, c) == Jobs

SkipLocked(locks, c) == {j \in Jobs : locks[j] \in {NoOne, c}}

\* compose_work_objs / gen_select_objs: the result sets the query may return
compose_work_objs(tab, locks, c, conds, claim_num, fin_steps) ==
  LET all == compose_work_objs_conds(conds, fin_steps)
      hit == {j \in SkipLocked(locks, c) : Matches(all, tab[j])}
  IN  {Limit(s, claim_num) : s \in Ordered(tab, hit)}

get_job_objs(tab, locks, c, a) ==
  compose_work_objs(tab, locks, c,
                    get_job_objs_conds(a.session_id, a.find_state, a.label),
                    a.claim_num, a.fin_steps)

\* the arguments of one claim
ClaimArgs(fin_steps, label, claim_num) ==
  LET op == update_operation(fin_steps, FALSE)
  IN  [session_id |-> 1, find_state |-> op.fetch_state, set_state |-> op.set_state,
       operation |-> op.operation, label |-> label, claim_num |-> claim_num,
       fin_steps |-> fin_steps]

Void == <<"void">>
NoArgs == ClaimArgs(<<"miopen_find_compile">>, "", 0)
Idle == [pc |-> "idle", set_state |-> "None", operation |-> "None", batch |-> <<>>,
         failed |-> FALSE]
Off == [Idle EXCEPT !.pc = "off"]
NoLast == [kind |-> "none", job |-> 0, claimant |-> 0, operation |-> "None",
           tag |-> "none", status |-> "None", exc |-> "ok", pre_state |-> "none", pre_retries |-> 0,
           ctx_retries |-> 0, writes |-> 0, raised |-> "None", dup |-> FALSE,
           cache_cleared |-> FALSE]

\* get_job_rows: the SELECT runs and locks the rows it returns; a claimant that
\* got no row and polls again (after = "idle") has nothing to commit
DoSelect(c, a, after) ==
  /\ claim[c].pc = "idle"
  /\ \E rows \in get_job_objs(job, lockedBy, c, a) :
       /\ claim' = [claim EXCEPT ![c] =
                      IF rows = <<>> /\ after = "idle" THEN Idle
                      ELSE [pc |-> "selected", set_state |-> a.set_state,
                            operation |-> a.operation, batch |-> rows, failed |-> FALSE]]
       /\ lockedBy' = [j \in Jobs |-> IF j \in Range(rows) THEN c ELSE lockedBy[j]]
  /\ last' = NoLast
  /\ UNCHANGED <<job, job0, args, ctxs, redelivered, holder, scen, cres, rjob, worker, results, others>>

\* session.rollback(): the row locks of the claimant's transaction are released
rollback_m(locks, c) == locks

rollback(locks, c) == [j \in Jobs |-> IF locks[j] = c THEN NoOne ELSE locks[j]]

\* get_job_rows: session.execute raises, with the rows of the query locked
\* already; the exception is logged, the transaction rolled back and None
\* returned
DoSelectFail(c, a, after) ==
  /\ claim[c].pc = "idle"
  /\ claim' = [claim EXCEPT ![c] = IF after = "idle" THEN Idle
                                   ELSE [pc |-> "done", set_state |-> a.set_state,
                                         operation |-> a.operation, batch |-> <<>>,
                                         failed |-> TRUE]]
  /\ \E rows \in get_job_objs(job, lockedBy, c, a) :
       lockedBy' = rollback([j \in Jobs |-> IF j \in Range(rows) THEN c ELSE lockedBy[j]], c)
  /\ last' = [NoLast EXCEPT !.kind = "select_failed", !.claimant = c]
  /\ UNCHANGED <<job, job0, args, ctxs, redelivered, holder, scen, cres, rjob, worker, results, others>>

\* build_context: one context per claimed job
build_context(rows, tab, operation) ==
  {[job |-> rows[i], retries |-> tab[rows[i]].retries, operation |-> operation, n |-> 0]
     : i \in DOMAIN rows}

\* get_jobs: the claimed rows are moved to set_state and the transaction commits
Commit(c, after) ==
  /\ claim[c].pc = "selected"
  /\ LET rows == Range(claim[c].batch)
         a    == claim[c]
     IN  /\ job' = [j \in Jobs |-> IF j \in rows THEN [job[j] EXCEPT !.state = a.set_state]
                                              ELSE job[j]]
         /\ lockedBy' = [j \in Jobs |-> IF lockedBy[j] = c THEN NoOne ELSE lockedBy[j]]
         /\ holder' = [j \in Jobs |-> IF j \in rows THEN holder[j] \cup {c} ELSE holder[j]]
         /\ ctxs' = ctxs \cup build_context(claim[c].batch, job, a.operation)
         /\ scen' = [j \in Jobs |-> IF j \in rows /\ a.operation = "EVAL"
                                        /\ job[j].state # "compiled"
                                      THEN Void ELSE scen[j]]
  /\ claim' = [claim EXCEPT ![c] = IF after = "idle" THEN Idle ELSE [@ EXCEPT !.pc = "done"]]
  /\ last' = NoLast
  /\ UNCHANGED <<job0, args, redelivered, cres, rjob, worker, results, others>>

\* celery_enqueue_call: apply_async puts the context on the queue, and what it
\* raises when the queue cannot be reached leaves celery_enqueue_call
celery_enqueue_call_m(reachable) == [queued |-> reachable, raised |-> "none"]

celery_enqueue_call(reachable) ==
  [queued |-> reachable, raised |-> IF reachable THEN "none" ELSE "OperationalError"]

DispatchLast(c, j, raised) ==
  [kind |-> "dispatch", claimant |-> c, job |-> j, raised |-> raised]

\* get_jobs has committed the claim and the contexts are enqueued one by one:
\* the queue is reached for the first n of them and not for the next, whose
\* exception ends the enqueuing
EnqueueFail(c, n) ==
  /\ claim[c].pc = "selected"
  /\ n < Len(claim[c].batch)
  /\ LET rows == Range(claim[c].batch)
         a    == claim[c]
         sent == [i \in 1..(n + 1) |-> celery_enqueue_call(i <= n)]
     IN  /\ job' = [j \in Jobs |-> IF j \in rows THEN [job[j] EXCEPT !.state = a.set_state]
                                              ELSE job[j]]
         /\ lockedBy' = [j \in Jobs |-> IF lockedBy[j] = c THEN NoOne ELSE lockedBy[j]]
         /\ holder' = [j \in Jobs |-> IF j \in rows THEN holder[j] \cup {c} ELSE holder[j]]
         /\ ctxs' = ctxs \cup build_context(SubSeq(a.batch, 1, n), job, a.operation)
         /\ scen' = [j \in Jobs |-> IF j \in rows /\ a.operation = "EVAL"
                                        /\ job[j].state # "compiled"
                                      THEN Void ELSE scen[j]]
         /\ last' = DispatchLast(c, a.batch[n + 1], sent[n + 1].raised)
  /\ claim' = [claim EXCEPT ![c] = Idle]
  /\ UNCHANGED <<job0, args, redelivered, cres, rjob, worker, results, others>>

\* ------------------------------------------------------ result ingestion
CompileTags == {"miopen_find_compile_result", "miopen_perf_compile_result"}
EvalTags == {"miopen_find_eval_result", "miopen_perf_eval_result"}

\* a result payload: falsy ("empty"), without a known tag ("unknown"), or tagged
Payloads ==
  {[tag |-> "empty", status |-> "None"], [tag |-> "unknown", status |-> "None"]}
  \cup [tag : CompileTags \cup EvalTags, status : {"success", "failure"}]

\* what the store does while the result rows are written
StoreOutcomes == {"ok", "OperationalError", "IntegrityError", "DataError"}

\* process_fdb_w_kernels / process_pdb_compile: the per-solver status of the payload
process_fdb_w_kernels(fin_json) == fin_json.status

\* get_fin_result: success of the job from the status
get_fin_result(status) == status = "success"

\* set_job_state: UPDATE job SET state=..[,retries=..] WHERE id=job.id, from the
\* job object of the context
set_job_state(row, ctxjob, state, increment_retries) ==
  [row EXCEPT !.state = state,
              !.retries = IF increment_retries THEN ctxjob.retries + 1 ELSE @]

RECURSIVE ApplyWrites(_, _, _)
ApplyWrites(row, ctxjob, writes) ==
  IF writes = <<>> THEN row
  ELSE ApplyWrites(set_job_state(row, ctxjob, Head(writes).state, Head(writes).inc),
                   ctxjob, Tail(writes))

Write(state, inc) == [state |-> state, inc |-> inc]
Outcome(writes, raised, exc, cleared) ==
  [writes |-> writes, raised |-> raised, exc |-> exc, cache_cleared |-> cleared]

\* process_compile_results: `failed_job = False` before the try
compile_failed_job_init == FALSE

\* process_compile_results: except (OperationalError, IntegrityError) / except DataError
compile_caught_m(exc) == exc \in {"IntegrityError", "DataError"}

compile_caught(exc) == exc \in {"OperationalError", "IntegrityError", "DataError"}

\* process_compile_results: the state written for a successful result
compile_success_write_m == Write("compiled", TRUE)

compile_success_write == Write("compiled", FALSE)

\* process_compile_results: the state written for a failed result
compile_failure_write_m == Write("new", TRUE)

compile_failure_write == Write("errored", FALSE)

process_compile_results(ctxjob, fin_json, outcome) ==
  LET entered == fin_json.tag # "empty"
      called  == entered /\ fin_json.tag \in CompileTags
      exc     == IF called THEN outcome ELSE "ok"
      status  == IF called THEN process_fdb_w_kernels(fin_json) ELSE "None"
      failed_job == IF ~entered THEN compile_failed_job_init
                    ELSE IF exc # "ok" THEN TRUE
                    ELSE ~get_fin_result(status)
  IN  IF exc # "ok" /\ ~compile_caught(exc)
        THEN Outcome(<<>>, exc, exc, FALSE)
        ELSE IF failed_job
               THEN Outcome(<<compile_failure_write>>, "None", exc, FALSE)
               ELSE Outcome(<<compile_success_write>>, "None", exc, FALSE)

\* process_eval_results: `failed_job = True` before the try
eval_failed_job_init == TRUE

\* process_eval_results: except (OperationalError, IntegrityError)
eval_caught_m(exc) == exc \in {"IntegrityError"}

eval_caught(exc) == exc \in {"OperationalError", "IntegrityError"}

\* process_eval_results: job.retries >= (MAX_ERRORED_JOB_RETRIES - 1)
retries_exhausted_late(retries) == retries >= MAX_ERRORED_JOB_RETRIES

retries_exhausted_early(retries) == retries >= MAX_ERRORED_JOB_RETRIES - 2

retries_exhausted(retries) == retries >= MAX_ERRORED_JOB_RETRIES - 1

\* process_eval_results: the state written for a successful result
eval_success_write_m == Write("evaluated", TRUE)

eval_success_write == Write("evaluated", FALSE)

\* process_eval_results: clean_cache_table(self.dbt, job) is the last statement
\* of the branch that is taken when the job has not failed
clean_cache_called_m(failed_job) == TRUE

clean_cache_called(failed_job) == ~failed_job

process_eval_results(ctxjob, fin_json, outcome) ==
  LET entered == fin_json.tag # "empty"
      called  == entered /\ fin_json.tag \in EvalTags
      unbound == entered /\ ~called
      exc     == IF called THEN outcome ELSE "ok"
      failed_job == IF ~entered THEN eval_failed_job_init
                    ELSE ~get_fin_result(process_fdb_w_kernels(fin_json))
      orig_state == "compiled"
  IN  IF unbound
        THEN Outcome(<<>>, "UnboundLocalError", exc, FALSE)
        ELSE IF exc # "ok"
               THEN IF eval_caught(exc)
                      THEN Outcome(<<Write("errored", FALSE)>>, "None", exc, FALSE)
                      ELSE Outcome(<<>>, exc, exc, FALSE)
               ELSE IF failed_job
                      THEN IF retries_exhausted(ctxjob.retries)
                             THEN Outcome(<<Write("errored", FALSE)>>, "None", exc,
                                          clean_cache_called(failed_job))
                             ELSE Outcome(<<Write(orig_state, TRUE)>>, "None", exc,
                                          clean_cache_called(failed_job))
                      ELSE Outcome(<<eval_success_write>>, "None", exc,
                                   clean_cache_called(failed_job))

\* the payload makes the processor write result rows to the store
StoreCalled(operation, fin_json) ==
  fin_json.tag \in (IF operation = "COMPILE" THEN CompileTags ELSE EvalTags)

\* the payloads a worker of the operation sends for the find steps the claims
\* ask for: with the result tag of the step, with no tag that is known, or empty
PayloadsOf(operation) ==
  {p \in Payloads :
     p.tag \in {"empty", "unknown",
                IF operation = "COMPILE" THEN "miopen_find_compile_result"
                                         ELSE "miopen_find_eval_result"}}

\* how an eval ingestion counts in the scenario of its job
ScenMark(r) ==
  IF r.raised # "None" \/ r.exc # "ok" THEN "E"
  ELSE IF r.writes[1].state = "evaluated" THEN "S" ELSE "F"

\* how a compile ingestion counts for its job: no result ("N"), a successful
\* one ("S") or a failed one ("F")
CompileMark(fin_json, outcome) ==
  IF fin_json.tag = "empty" THEN "N"
  ELSE IF fin_json.tag \in CompileTags /\ fin_json.status = "success" /\ outcome = "ok"
         THEN "S" ELSE "F"

\* a worker's result for the context x is handed to the result processor; the
\* queue delivers at least once, so the same result may be delivered again
Ingest(x, fin_json, outcome, again) ==
  /\ x \in ctxs
  /\ again => redelivered < MaxRedeliveries
  /\ lockedBy[x.job] = NoOne
  /\ fin_json \in PayloadsOf(x.operation)
  /\ outcome # "ok" => StoreCalled(x.operation, fin_json)
  /\ LET r    == IF x.operation = "COMPILE"
                   THEN process_compile_results(x, fin_json, outcome)
                   ELSE process_eval_results(x, fin_json, outcome)
         pre  == job[x.job]
     IN  /\ job' = [job EXCEPT ![x.job] = ApplyWrites(pre, x, r.writes)]
         /\ holder' = [holder EXCEPT ![x.job] = IF r.writes # <<>> THEN {} ELSE @]
         /\ last' = [kind |-> "ingest", job |-> x.job, claimant |-> 0,
                     operation |-> x.operation, tag |-> fin_json.tag,
                     status |-> IF r.exc = "ok" THEN fin_json.status ELSE "None",
                     exc |-> r.exc, pre_state |-> pre.state, pre_retries |-> pre.retries,
                     ctx_retries |-> x.retries, writes |-> Len(r.writes),
                     raised |-> r.raised, dup |-> x.n > 0,
                     cache_cleared |-> r.cache_cleared]
         /\ scen' = [scen EXCEPT ![x.job] =
                       IF @ = Void \/ x.n > 0 THEN Void
                       ELSE IF x.operation = "EVAL" THEN Append(@, ScenMark(r)) ELSE @]
         /\ cres' = [cres EXCEPT ![x.job] =
                       IF @ = "none" /\ x.operation = "COMPILE"
                         THEN CompileMark(fin_json, outcome) ELSE "void"]
  /\ ctxs' = (ctxs \ {x}) \cup (IF again THEN {[x EXCEPT !.n = 1]} ELSE {})
  /\ redelivered' = IF again THEN redelivered + 1 ELSE redelivered
  /\ UNCHANGED <<job0, lockedBy, claim, args, rjob, worker, results, others>>

\* ----------------------------------------------------- compose_worker_list
\* fin steps whose name contains 'eval'
EvalSteps == {"miopen_find_eval", "miopen_perf_eval"}

\* the arguments compose_worker_list and launch_worker read; fin_steps is <<>>
\* when it is not given, gpu_lim is 0 when it is not given
ComposeArgs(op, fin_steps, gpu_lim, restart_machine) ==
  [fin_steps |-> fin_steps, gpu_lim |-> gpu_lim, restart_machine |-> restart_machine,
   update_applicability |-> op = "update_applicability",
   update_solvers |-> op = "update_solvers",
   check_status |-> op = "check_status",
   init_session |-> op = "init_session",
   execute_cmd |-> op = "execute_cmd"]

\* something that happened in a composition, on machine m and for worker id idx
Ev(ev, m, idx) == [ev |-> ev, m |-> m, idx |-> idx]

\* the ids 0..n-1, as machine.get_avail_gpus() and get_num_procs(machine) give
\* them for n GPUs or n process slots, and as range(gpu_lim) gives them
Ids(n) == [i \in 1..n |-> i - 1]

\* worker_ids of a machine before the cap of update_applicability
worker_ids(a, machine) ==
  IF a.fin_steps # <<>> /\ a.fin_steps[1] \in EvalSteps
    THEN IF a.gpu_lim # 0 /\ a.gpu_lim < machine.avail_gpus
           THEN Ids(a.gpu_lim)
           ELSE Ids(machine.avail_gpus)
    ELSE Ids(machine.num_procs)

\* proc_lim = (len_rows + 99) / 100; while len(worker_ids) > proc_lim: pop()
\* (the division is a true division: the comparison is made on the hundredfold)
over_proc_lim_m(n, len_rows) == n * 100 > len_rows

over_proc_lim(n, len_rows) == n * 100 > len_rows + 99

RECURSIVE pop_while(_, _)
pop_while(ids, len_rows) ==
  IF over_proc_lim(Len(ids), len_rows)
    THEN pop_while(SubSeq(ids, 1, Len(ids) - 1), len_rows)
    ELSE ids

\* launch_worker: for update_applicability a worker is started and appended to
\* the list; otherwise a FinClass is made for the status check, the new
\* session or the command, and it is neither started nor appended
launched_m(st, m, idx) ==
  [st EXCEPT !.log = Append(@, Ev("start", m, idx))]

launched(st, m, idx) ==
  [st EXCEPT !.log = Append(@, Ev("start", m, idx)),
             !.worker_lst = Append(@, <<m, idx>>)]

launch_worker(a, machine, m, idx, st) ==
  IF a.update_applicability
    THEN [ret |-> TRUE, st |-> launched(st, m, idx)]
    ELSE LET made == [st EXCEPT !.log = Append(@, Ev("FinClass", m, idx))]
         IN  IF a.check_status
               THEN [ret |-> ~machine.status_ok,
                     st |-> [made EXCEPT !.log = Append(@, Ev("check_status", m, idx))]]
             ELSE IF a.init_session
               THEN [ret |-> FALSE,
                     st |-> [made EXCEPT !.log = Append(@, Ev("add_new_session", m, idx))]]
             ELSE IF a.execute_cmd
               THEN [ret |-> FALSE,
                     st |-> [made EXCEPT !.log = Append(@, Ev("exec_command", m, idx))]]
             ELSE [ret |-> FALSE, st |-> made]

\* for gpu_idx in worker_ids: if not self.launch_worker(...): break
RECURSIVE launch_from(_, _, _, _, _, _)
launch_from(a, machine, m, ids, k, st) ==
  IF k > Len(ids) THEN st
  ELSE LET r == launch_worker(a, machine, m, ids[k], st)
       IN  IF ~r.ret THEN r.st ELSE launch_from(a, machine, m, ids, k + 1, r.st)

\* what compose_worker_list returns: None, or the list of workers; with it,
\* what the composition did
Composed(ret, st) == [ret |-> ret, worker_lst |-> st.worker_lst, log |-> st.log]

\* if (self.args.update_solvers) and not fin_work_done
fin_work_due(a, st) == a.update_solvers /\ ~st.fin_work_done

\* if self.args.restart_machine: machine.restart_server(wait=False); continue
restart_machine_m(a) == FALSE

restart_machine(a) == a.restart_machine

\* if len(worker_ids) == 0: return None
no_ids_m(ids) == FALSE

no_ids(ids) == Len(ids) = 0

\* the loop over the machines, from machine m on
RECURSIVE compose_from(_, _, _, _, _)

\* break, after do_fin_work: the loop over the machines ends
after_fin_work_m(a, machines, len_rows, m, st) ==
  compose_from(a, machines, len_rows, m + 1, st)

after_fin_work(a, machines, len_rows, m, st) == Composed("list", st)

compose_from(a, machines, len_rows, m, st) ==
  IF m > Len(machines) THEN Composed("list", st)
  ELSE IF restart_machine(a)
    THEN compose_from(a, machines, len_rows, m + 1,
                      [st EXCEPT !.log = Append(@, Ev("restart_server_nowait", m, 0))])
  ELSE LET ids0 == worker_ids(a, machines[m])
           ids  == IF a.update_applicability THEN pop_while(ids0, len_rows) ELSE ids0
           st1  == IF a.update_applicability
                     THEN [st EXCEPT !.log = Append(@, Ev("query_cfgs", m, 0))]
                     ELSE st
       IN  IF no_ids(ids) THEN Composed("None", [st1 EXCEPT !.worker_lst = <<>>])
           ELSE IF fin_work_due(a, st1)
             THEN after_fin_work(a, machines, len_rows, m,
                                 [st1 EXCEPT !.log = Append(@, Ev("do_fin_work", m, 0)),
                                             !.fin_work_done = TRUE])
           ELSE compose_from(a, machines, len_rows, m + 1,
                             launch_from(a, machines[m], m, ids, 1, st1))

compose_worker_list(a, machines, len_rows) ==
  compose_from(a, machines, len_rows, 1,
               [worker_lst |-> <<>>, log |-> <<>>, fin_work_done |-> FALSE])

\* the context builder does not run
NoBuilt == [pc |-> "off", batch |-> <<>>, cfg_valid |-> <<>>, operation |-> "None",
            session |-> [arch |-> "None", num_cu |-> 0],
            res |-> [raised |-> "none", contexts |-> <<>>]]

\* no composition of workers runs
NoComposed == [ret |-> "none", worker_lst |-> <<>>, log |-> <<>>]
NoPool == [pc |-> "off", args |-> ComposeArgs("none", <<>>, 0, FALSE), machines |-> <<>>,
           len_rows |-> 0, res |-> NoComposed, joined |-> <<>>]

\* run: the machines are loaded and compose_worker_list is called
Compose ==
  /\ pool.pc = "run"
  /\ pool' = [pool EXCEPT !.pc = "composed",
                          !.res = compose_worker_list(pool.args, pool.machines, pool.len_rows)]
  /\ UNCHANGED <<job, job0, lockedBy, claim, args, ctxs, redelivered, holder, last, scen,
                 cres, rjob, worker, results, sr, built, load>>

\* main: nothing is joined when run returned None; otherwise every worker of
\* the list is joined
Join ==
  /\ pool.pc = "composed"
  /\ pool' = [pool EXCEPT !.pc = "joined",
                          !.joined = IF pool.res.ret = "None" THEN <<>>
                                     ELSE pool.res.worker_lst]
  /\ UNCHANGED <<job, job0, lockedBy, claim, args, ctxs, redelivered, holder, last, scen,
                 cres, rjob, worker, results, sr, built, load>>

\* ---------------------------------------------------------------- add_jobs
\* the loaders that run add_jobs on one job table
Loaders == {1, 2}

\* the applicable (config, solver) pairs compose_query can return
Pair(k) == [config |-> (k + 1) \div 2, solver |-> IF k % 2 = 1 THEN "ConvAsm1x1U" ELSE "GemmFwd"]

\* res = query.all(): rows of the query, each pair once (none when hi < lo)
ResLists ==
  {[i \in 1..(hi - lo + 1) |-> Pair(lo + i - 1)] :
     lo \in 1..NumPairs, hi \in 0..NumPairs}

\* ','.join(sorted(args.fin_steps)), or 'not_fin' when no fin step is given
StepOrder ==
  <<"miopen_find_compile", "miopen_find_eval", "miopen_perf_compile", "miopen_perf_eval">>

fin_step_str(fin_steps) ==
  IF fin_steps = {} THEN <<"not_fin">>
  ELSE LET Kept(x) == x \in fin_steps IN SelectSeq(StepOrder, Kept)

\* the text of the fin_step column of a row, which the store compares with the
\* string of the query
column_str(fin_step) == fin_step_str(fin_step)

\* the arguments of add_jobs that the jobs and the query for the jobs that
\* exist take their values from
LoadArgs ==
  {[session_id |-> a[1], fin_steps |-> a[2], label |-> "L1", res |-> res] :
     a \in {<<1, {"miopen_find_compile"}>>,
            <<1, {"miopen_find_compile", "miopen_find_eval"}>>,
            <<2, {"miopen_find_compile"}>>},
     res \in ResLists}

\* select config, solver from job where session=.. and fin_step='..': pre_ex
pre_ex_m(tab, a) == {}

pre_ex(tab, a) ==
  {[config |-> r.config, solver |-> r.solver] :
     r \in {q \in tab : q.session = a.session_id
                         /\ column_str(q.fin_step) = fin_step_str(a.fin_steps)}}

\* job = dbt.job_table(); job.config = config; ...; job.session = args.session_id
new_job(p, a, id) ==
  [id |-> id, config |-> p.config, solver |-> p.solver, state |-> "new", valid |-> 1,
   reason |-> a.label, fin_step |-> a.fin_steps, session |-> a.session_id]

\* the unique index of the job table on (config, solver, fin_step, session):
\* the commit of a row that repeats the key of a row raises IntegrityError
unique_violation(tab, row) ==
  \E r \in tab : /\ r.config = row.config /\ r.solver = row.solver
                 /\ r.fin_step = row.fin_step /\ r.session = row.session

\* if job.config in pre_ex: if job.solver in pre_ex[job.config]: continue
Skips(pre, p) == p \in pre

\* except IntegrityError after the commit of the quick update: counts = 0
counts_after_rollback_m(counts) == counts

counts_after_rollback(counts) == 0

\* a loader that does not run, and one that is about to call add_jobs
LOff == [pc |-> "off", args |-> [session_id |-> 0, fin_steps |-> {}, label |-> "", res |-> <<>>],
         pre_ex |-> {}, before |-> {}, after |-> {}, idx |-> 0, counts |-> 0,
         do_commit |-> FALSE, inserted |-> {}, skipped |-> {}, refused |-> {}]

NoLoad == [tab |-> {}, loader |-> [l \in Loaders |-> LOff]]

\* add_jobs, to the end of the query for the jobs that exist: res and pre_ex are
\* read (`before` keeps the table as the query saw it, `after` the loaders that
\* had returned by then)
LoadRead(l) ==
  /\ load.loader[l].pc = "start"
  /\ load' = [load EXCEPT
                !.loader[l] = [@ EXCEPT !.pc = "read",
                                        !.pre_ex = pre_ex(load.tab, load.loader[l].args),
                                        !.before = load.tab,
                                        !.after = {k \in Loaders : load.loader[k].pc = "done"}]]
  /\ UNCHANGED <<job, job0, lockedBy, claim, args, ctxs, redelivered, holder, last, scen,
                 cres, rjob, worker, results, sr, pool, built>>

\* the quick update (do_commit is False): every job of res that is not skipped
\* is added to the session and counted, and one commit follows; an
\* IntegrityError of the commit rolls all of them back, and the loop starts
\* again with do_commit = True
LoadQuick(l) ==
  /\ load.loader[l].pc = "read"
  /\ LET L     == load.loader[l]
         Todo(p) == ~Skips(L.pre_ex, p)
         todo  == SelectSeq(L.args.res, Todo)
         rows  == {new_job(todo[i], L.args, Cardinality(load.tab) + i) : i \in DOMAIN todo}
         skip  == L.skipped \cup {p \in Range(L.args.res) : Skips(L.pre_ex, p)}
     IN  IF \E r \in rows : unique_violation(load.tab, r)
           THEN load' = [load EXCEPT
                           !.loader[l] = [@ EXCEPT !.pc = "one", !.idx = 1,
                                                   !.counts = counts_after_rollback(Len(todo)),
                                                   !.do_commit = TRUE, !.skipped = skip]]
           ELSE load' = [tab |-> load.tab \cup rows,
                         loader |-> [load.loader EXCEPT
                                       ![l] = [@ EXCEPT !.pc = "done", !.counts = Len(todo),
                                                        !.inserted = {r.id : r \in rows},
                                                        !.skipped = skip]]]
  /\ UNCHANGED <<job, job0, lockedBy, claim, args, ctxs, redelivered, holder, last, scen,
                 cres, rjob, worker, results, sr, pool, built>>

\* one pass of the loop with do_commit = True: the job is skipped, or added and
\* committed and counted, or its commit raises IntegrityError and is rolled
\* back; after the last job of res add_jobs returns counts
LoadOne(l) ==
  /\ load.loader[l].pc = "one"
  /\ LET L   == load.loader[l]
         p   == L.args.res[L.idx]
         row == new_job(p, L.args, Cardinality(load.tab) + 1)
         nxt == IF L.idx = Len(L.args.res) THEN "done" ELSE "one"
     IN  IF Skips(L.pre_ex, p)
           THEN load' = [load EXCEPT
                           !.loader[l] = [@ EXCEPT !.pc = nxt, !.idx = @ + 1,
                                                   !.skipped = @ \cup {p}]]
         ELSE IF unique_violation(load.tab, row)
           THEN load' = [load EXCEPT
                           !.loader[l] = [@ EXCEPT !.pc = nxt, !.idx = @ + 1,
                                                   !.refused = @ \cup {p}]]
         ELSE load' = [tab |-> load.tab \cup {row},
                       loader |-> [load.loader EXCEPT
                                     ![l] = [@ EXCEPT !.pc = nxt, !.idx = @ + 1,
                                                      !.counts = @ + 1,
                                                      !.inserted = @ \cup {row.id}]]]
  /\ UNCHANGED <<job, job0, lockedBy, claim, args, ctxs, redelivered, holder, last, scen,
                 cres, rjob, worker, results, sr, pool, built>>

\* ----------------------------------------------------------- session_retry
\* what one call of the wrapped operation, update_result_table, can meet: the
\* row is inserted and committed (returns True), the sanity check finds bad
\* data (returns True without an insert), the store raises sqlalchemy's or
\* pymysql's OperationalError or an IntegrityError, or the call raises another
\* exception (obj.parse cannot be unpacked, DataError, ...)
\* CallSeqs: the outcomes of the calls of one session_retry, were they all
\* made; one more than the loop can make
CallSeqs ==
  [1..(NUM_SQL_RETRIES + 1) ->
     {"inserted", "bad_data", "OperationalError", "pymysql_OperationalError",
      "IntegrityError", "Exception"}]

\* for idx in range(NUM_SQL_RETRIES)
in_range_m(idx) == idx <= NUM_SQL_RETRIES

in_range(idx) == idx < NUM_SQL_RETRIES

\* the except clauses that roll back, sleep and go on with the loop
Contention_m == {"OperationalError", "pymysql_OperationalError", "IntegrityError"}

Contention == {"OperationalError", "pymysql_OperationalError"}

\* the outcome of session_retry: the value returned, the exception that left
\* it, whether a results row was committed, and the calls and rollbacks in
\* their order
SrOutcome(ret, raised, row, log) ==
  [ret |-> ret, raised |-> raised, row |-> row, log |-> log]

\* the loop of session_retry from index idx on
RECURSIVE session_retry_from(_, _, _)
session_retry_from(outs, idx, log) ==
  IF ~in_range(idx)
    THEN SrOutcome(FALSE, "none", FALSE, log)
    ELSE LET o == outs[idx + 1]
             called == Append(log, "call")
         IN  CASE o \in {"inserted", "bad_data"} ->
                    SrOutcome(TRUE, "none", o = "inserted", called)
               [] o \in Contention ->
                    session_retry_from(outs, idx + 1, Append(called, "rollback"))
               [] o = "IntegrityError" ->
                    SrOutcome(FALSE, "none", FALSE, Append(called, "rollback"))
               [] OTHER ->
                    SrOutcome(FALSE, o, FALSE, called)

session_retry(outs) == session_retry_from(outs, 0, <<>>)

NoOutcome == SrOutcome(FALSE, "none", FALSE, <<>>)
NoCall == [pc |-> "off", outs |-> <<>>, res |-> NoOutcome]

\* session_retry is called and returns, or the exception leaves it
SessionRetry ==
  /\ sr.pc = "call"
  /\ sr' = [sr EXCEPT !.pc = "done", !.res = session_retry(sr.outs)]
  /\ UNCHANGED <<job, job0, lockedBy, claim, args, ctxs, redelivered, holder, last, scen,
                 cres, rjob, worker, results, pool, built, load>>

\* process_result: what step sees of session_retry
process_result(outs) ==
  LET r == session_retry(outs)
  IN  [ret |-> r.ret, raised |-> r.raised, row |-> r.row]

ProcessResults == {process_result(outs) : outs \in CallSeqs}

\* ------------------------------------------------------ the rocMLIR worker
\* step: get_job("new", "running", False)
step_find_state == "new"

step_set_state_m == "new"

step_set_state == "running"

\* Retrying(stop=stop_after_attempt(3), reraise=True, ...)
stop_after_attempt == 3

\* the stop condition of the Retrying loop, asked after attempt n has raised
stop_m(n) == n > stop_after_attempt

stop(n) == n >= stop_after_attempt

\* what one attempt can meet: run_cmd returns 0 and the result is stored
\* ("zero"), run_cmd returns 0 and process_result raises, run_cmd returns
\* another exit code, run_cmd raises ValueError, run_cmd raises another exception
AttemptOutcomes == {"zero", "zero_result_raises", "nonzero", "ValueError", "Exception"}

\* the outcomes that leave the attempt with an exception
Raises_m(o) == o \in {"zero_result_raises", "nonzero", "ValueError", "Exception"}

Raises(o) == o \in {"zero_result_raises", "Exception"}

\* the state and result text the attempt writes with set_job_state, if any
AttemptWrite(o, row) ==
  CASE o = "ValueError" -> [state |-> "error", result |-> "verr"]
    [] o = "nonzero"    -> [state |-> "error", result |-> "msg"]
    [] o \in {"zero", "zero_result_raises"} -> [state |-> "completed", result |-> "output"]
    [] OTHER -> row

\* what process_result does in an attempt with outcome o: it is called after an
\* exit code 0 only, and "zero_result_raises" is the attempt it leaves with an
\* exception
NotCalled == [ret |-> FALSE, raised |-> "none", row |-> FALSE]

StoreOf(o) ==
  CASE o = "zero" -> {s \in ProcessResults : s.raised = "none"}
    [] o = "zero_result_raises" -> {s \in ProcessResults : s.raised # "none"}
    [] OTHER -> {NotCalled}

\* how the step ended: after an exit code 0, with a results row ("zero"), with
\* bad data that was skipped, or with session_retry returning False
HowOf(o, s) ==
  IF o # "zero" THEN o
  ELSE IF s.row THEN "zero"
  ELSE IF s.ret THEN "zero_bad_data" ELSE "zero_not_stored"

\* except Exception as exc: set_job_state('error', result=str(exc)...)
HandlerWrite_m == [state |-> "running", result |-> "exc"]

HandlerWrite == [state |-> "error", result |-> "exc"]

NewRow == [state |-> "new", result |-> "none"]
WIdle == [pc |-> "idle", job |-> 0, attempt |-> 0]
StepLast(w, j, ret, how, runs) ==
  [kind |-> "step", worker |-> w, job |-> j, ret |-> ret, how |-> how, runs |-> runs]

\* no rocMLIR worker runs
NoWorkers ==
  /\ rjob = [j \in TuningJobs |-> [state |-> "error", result |-> "none"]]
  /\ worker = [w \in Claimants |-> WIdle]
  /\ results = {}

NoTuning ==
  /\ NoWorkers
  /\ sr = NoCall
  /\ pool = NoPool
  /\ built = NoBuilt
  /\ load = NoLoad

\* get_job: the claims of one job in find_state, which is moved to set_state
get_job(tab, find_state, set_state) ==
  {[job |-> j, tab |-> [tab EXCEPT ![j].state = set_state]] :
     j \in {k \in TuningJobs : tab[k].state = find_state}}

\* step, a job was found: get_job claims it, and set_job_state('running')
StepClaim(w) ==
  /\ worker[w].pc = "idle"
  /\ \E got \in get_job(rjob, step_find_state, step_set_state) :
       /\ rjob' = got.tab
       /\ worker' = [worker EXCEPT ![w] = [pc |-> "run", job |-> got.job, attempt |-> 1]]
  /\ last' = NoLast
  /\ UNCHANGED <<job, job0, lockedBy, claim, args, ctxs, redelivered, holder, scen, cres,
                 results, others>>

\* step, no job was found: get_job returns False, step sleeps and returns False
StepNoJob(w) ==
  /\ worker[w].pc = "idle"
  /\ get_job(rjob, step_find_state, step_set_state) = {}
  /\ last' = StepLast(w, 0, FALSE, "nojob", 0)
  /\ UNCHANGED <<job, job0, lockedBy, claim, args, ctxs, redelivered, holder, scen, cres,
                 rjob, worker, results, others>>

\* one attempt of the Retrying loop: run_cmd, then the state written for its
\* outcome; an exception ends the attempt, which is repeated unless it was the
\* last one, and then the exception is raised again; otherwise step returns True
Attempt(w, o) ==
  /\ worker[w].pc = "run"
  /\ LET j == worker[w].job
         n == worker[w].attempt
     IN  /\ rjob' = [rjob EXCEPT ![j] = AttemptWrite(o, @)]
         /\ \E s \in StoreOf(o) :
              /\ results' = IF s.row THEN results \cup {j} ELSE results
              /\ IF Raises(o)
                   THEN /\ worker' = [worker EXCEPT ![w] =
                                        IF stop(n)
                                          THEN [@ EXCEPT !.pc = "raise"]
                                          ELSE [@ EXCEPT !.attempt = n + 1]]
                        /\ last' = NoLast
                   ELSE /\ worker' = [worker EXCEPT ![w] = WIdle]
                        /\ last' = StepLast(w, j, TRUE, HowOf(o, s), n)
  /\ UNCHANGED <<job, job0, lockedBy, claim, args, ctxs, redelivered, holder, scen, cres,
                 others>>

\* except Exception: the job is set to error with the text of the exception,
\* and step returns True
Handler(w) ==
  /\ worker[w].pc = "raise"
  /\ rjob' = [rjob EXCEPT ![worker[w].job] = HandlerWrite]
  /\ worker' = [worker EXCEPT ![w] = WIdle]
  /\ last' = StepLast(w, worker[w].job, TRUE, "handler", worker[w].attempt)
  /\ UNCHANGED <<job, job0, lockedBy, claim, args, ctxs, redelivered, holder, scen, cres,
                 results, others>>

\* ------------------------------------------------------------ job tables
\* configs of the jobs: not in the order of the job ids, and with a tie
ConfigOf(j) == (NumJobs - j) \div 2 + 1

\* a job row as add_jobs loads it
LoadedRow(j) ==
  [state |-> "new", retries |-> 0, valid |-> 1, session |-> 1, reason |-> "L1",
   fin_step |-> {"miopen_find_compile", "miopen_find_eval"}, config |-> ConfigOf(j)]

\* a job row that was taken out of scheduling
InvalidRow(j) == [LoadedRow(j) EXCEPT !.valid = 0]

\* rows a job table can hold when a polling round starts: per job two rows the
\* claim may return, and two of the rows each condition of the claim leaves out
RowProfiles(j) ==
  { LoadedRow(j),
    [LoadedRow(j) EXCEPT !.state = "compiled", !.retries = IF j % 3 = 1 THEN 2 ELSE 1] }
  \cup
  CASE j % 3 = 1 -> { [LoadedRow(j) EXCEPT !.valid = 0],
                      [LoadedRow(j) EXCEPT !.state = "compiled", !.reason = "L2"] }
    [] j % 3 = 2 -> { [LoadedRow(j) EXCEPT !.session = 2],
                      [LoadedRow(j) EXCEPT !.retries = max_job_retries] }
    [] j % 3 = 0 -> { [LoadedRow(j) EXCEPT !.state = "eval_start", !.retries = 1],
                      [LoadedRow(j) EXCEPT !.fin_step = {"not_fin"}] }

FinStepArgs == {<<"miopen_find_compile">>, <<"miopen_find_eval">>}

RoundArgs == {ClaimArgs(f, l, n) : f \in FinStepArgs, l \in {"", "L1"}, n \in 0..2}

\* --------------------------------------------------- the polling round
InitRound ==
  /\ job \in {t \in [Jobs -> UNION {RowProfiles(j) : j \in Jobs}] :
                 \A j \in Jobs : t[j] \in RowProfiles(j)}
  /\ job0 = job
  /\ args \in RoundArgs
  /\ lockedBy = [j \in Jobs |-> NoOne]
  /\ claim = [c \in Claimants |-> Idle]
  /\ ctxs = {}
  /\ redelivered = 0
  /\ holder = [j \in Jobs |-> {}]
  /\ last = NoLast
  /\ scen = [j \in Jobs |-> Void]
  /\ cres = [j \in Jobs |-> "void"]
  /\ NoTuning

RoundSelect(c) == DoSelect(c, args, "done")
RoundSelectFail(c) == DoSelectFail(c, args, "done")
RoundCommit(c) == Commit(c, "done")

NextRound ==
  \/ \E c \in Claimants : RoundSelect(c)
  \/ \E c \in Claimants : RoundSelectFail(c)
  \/ \E c \in Claimants : RoundCommit(c)

SpecClaim == InitRound /\ [][NextRound]_vars

\* ---------------------------------------------------- the fin-step filter
\* the jobs are new and valid, each with a fin_step value: loaded for one
\* step, for two, or for none. The claimants run the claim query for no fin
\* step, for one, or for two of which the first counts; the source set is the
\* one left by update_operation and update_applicability
InitFilter ==
  /\ \E fs \in [Jobs -> {{"miopen_find_compile"},
                         {"miopen_find_compile", "miopen_find_eval"},
                         {"miopen_find_eval"}, {"not_fin"}}] :
       job = [j \in Jobs |-> [LoadedRow(j) EXCEPT !.fin_step = fs[j]]]
  /\ job0 = job
  /\ \E f \in {<<>>, <<"miopen_find_compile">>, <<"miopen_find_eval">>,
               <<"miopen_find_eval", "miopen_find_compile">>},
        n \in 0..1 :
       args = [ClaimArgs(f, "", n) EXCEPT
                 !.find_state = update_operation(f, TRUE).fetch_state]
  /\ lockedBy = [j \in Jobs |-> NoOne]
  /\ claim = [c \in Claimants |-> Idle]
  /\ ctxs = {}
  /\ redelivered = 0
  /\ holder = [j \in Jobs |-> {}]
  /\ last = NoLast
  /\ scen = [j \in Jobs |-> Void]
  /\ cres = [j \in Jobs |-> "void"]
  /\ NoTuning

NextFilter ==
  \/ \E c \in Claimants : RoundSelect(c)
  \/ \E c \in Claimants : RoundSelectFail(c)

SpecFilter == InitFilter /\ [][NextFilter]_vars

\* ------------------------------------------------------ the life cycle
\* the jobs are loaded; the claimants in `workers` poll, the queue has delivered
\* `deliveries` results a second time already, and the scenario of the jobs is
\* followed or not
Life(workers, deliveries, follow) ==
  /\ job = [j \in Jobs |-> IF j <= NumLifeJobs THEN LoadedRow(j) ELSE InvalidRow(j)]
  /\ job0 = job
  /\ args = NoArgs
  /\ lockedBy = [j \in Jobs |-> NoOne]
  /\ claim = [c \in Claimants |-> IF c \in workers THEN Idle ELSE Off]
  /\ ctxs = {}
  /\ redelivered = deliveries
  /\ holder = [j \in Jobs |-> {}]
  /\ last = NoLast
  /\ scen = [j \in Jobs |-> IF follow THEN <<>> ELSE Void]
  /\ cres = [j \in Jobs |-> "void"]
  /\ NoTuning

\* all claimants poll; every result is delivered once
Init == Life(Claimants, MaxRedeliveries, TRUE)

\* one claimant polls; results may be delivered again
InitResults == Life({1}, 0, FALSE)

ClaimSelect(c) ==
  \E f \in FinStepArgs, n \in 0..1 : DoSelect(c, ClaimArgs(f, "L1", n), "idle")
ClaimCommit(c) == Commit(c, "idle")

Next ==
  \/ \E c \in Claimants : ClaimSelect(c)
  \/ \E c \in Claimants : ClaimCommit(c)
  \/ \E x \in ctxs :
       \E p \in PayloadsOf(x.operation), o \in StoreOutcomes, again \in BOOLEAN :
         Ingest(x, p, o, again)

Spec == Init /\ [][Next]_vars
SpecResults == InitResults /\ [][Next]_vars

\* the life cycle with a queue that cannot always be reached
NextDispatch ==
  \/ Next
  \/ \E c \in Claimants : \E n \in 0..(NumLifeJobs - 1) : EnqueueFail(c, n)

SpecDispatch == Init /\ [][NextDispatch]_vars

\* the life cycle with claimants that keep polling and a queue whose contexts
\* each have their result ingested: a claim or an ingestion that can be made is
\* made (no behaviour of the life cycle repeats a state, so this is fair to
\* each of them)
SpecFair == Spec /\ WF_vars(Next)

\* ------------------------------------------------- one batch of compiles
\* a session with n valid jobs in state new and at least one row that is not
\* valid; the claimants run one compile claim each, with a batch size of at
\* least n; every result is delivered once
InitBatch ==
  /\ \E n \in 1..(NumJobs - 1) :
       /\ job = [j \in Jobs |-> IF j <= n THEN LoadedRow(j) ELSE InvalidRow(j)]
       /\ args \in {ClaimArgs(<<"miopen_find_compile">>, "L1", k) : k \in n..NumJobs}
       /\ cres = [j \in Jobs |-> IF j <= n THEN "none" ELSE "void"]
  /\ job0 = job
  /\ lockedBy = [j \in Jobs |-> NoOne]
  /\ claim = [c \in Claimants |-> Idle]
  /\ ctxs = {}
  /\ redelivered = MaxRedeliveries
  /\ holder = [j \in Jobs |-> {}]
  /\ last = NoLast
  /\ scen = [j \in Jobs |-> Void]
  /\ NoTuning

NextBatch ==
  \/ \E c \in Claimants : RoundSelect(c)
  \/ \E c \in Claimants : RoundCommit(c)
  \/ \E x \in ctxs :
       \E p \in PayloadsOf(x.operation), o \in StoreOutcomes, again \in BOOLEAN :
         Ingest(x, p, o, again)

SpecBatch == InitBatch /\ [][NextBatch]_vars

\* ------------------------------------------------- the rocMLIR workers
\* the tuning jobs are loaded in state new; no MIOpen claimant runs
InitTuning ==
  /\ job = [j \in Jobs |-> InvalidRow(j)]
  /\ job0 = job
  /\ args = NoArgs
  /\ lockedBy = [j \in Jobs |-> NoOne]
  /\ claim = [c \in Claimants |-> Off]
  /\ ctxs = {}
  /\ redelivered = MaxRedeliveries
  /\ holder = [j \in Jobs |-> {}]
  /\ last = NoLast
  /\ scen = [j \in Jobs |-> Void]
  /\ cres = [j \in Jobs |-> "void"]
  /\ rjob = [j \in TuningJobs |-> NewRow]
  /\ worker = [w \in Claimants |-> WIdle]
  /\ results = {}
  /\ sr = NoCall
  /\ pool = NoPool
  /\ built = NoBuilt
  /\ load = NoLoad

NextTuning ==
  \/ \E w \in Claimants : StepClaim(w)
  \/ \E w \in Claimants : StepNoJob(w)
  \/ \E w \in Claimants, o \in AttemptOutcomes : Attempt(w, o)
  \/ \E w \in Claimants : Handler(w)

SpecTuning == InitTuning /\ [][NextTuning]_vars

\* a step that has claimed a job goes on: the worker process is scheduled
SpecTuningFair ==
  /\ SpecTuning
  /\ \A w \in Claimants :
       WF_vars(\E o \in AttemptOutcomes : Attempt(w, o)) /\ WF_vars(Handler(w))

\* ------------------------------------------------------ the operation
\* the library after parse_args: fetch_state is empty and set_state is None
Parsed(fin_steps, update_applicability, label, claim_num) ==
  [pc |-> "parsed", session_id |-> 1, find_state |-> {}, set_state |-> "None",
   operation |-> "None", label |-> label, claim_num |-> claim_num,
   fin_steps |-> fin_steps, update_applicability |-> update_applicability]

\* update_operation is called
UpdateOperation ==
  /\ args.pc = "parsed"
  /\ LET op == update_operation(args.fin_steps, args.update_applicability)
     IN  args' = [args EXCEPT !.pc = "updated", !.find_state = op.fetch_state,
                              !.set_state = op.set_state, !.operation = op.operation]
  /\ UNCHANGED <<job, job0, lockedBy, claim, ctxs, redelivered, holder, last, scen, cres,
                 rjob, worker, results, others>>

InitOperation ==
  /\ job = [j \in Jobs |-> InvalidRow(j)]
  /\ job0 = job
  /\ lockedBy = [j \in Jobs |-> NoOne]
  /\ claim = [c \in Claimants |-> Off]
  /\ ctxs = {}
  /\ redelivered = MaxRedeliveries
  /\ holder = [j \in Jobs |-> {}]
  /\ last = NoLast
  /\ scen = [j \in Jobs |-> Void]
  /\ cres = [j \in Jobs |-> "void"]
  /\ NoTuning
  \* the fin steps parse_args lets through: none, or one of the steps of FinStep
  /\ \E f \in {<<>>, <<"miopen_find_compile">>, <<"miopen_perf_compile">>,
               <<"miopen_find_eval">>, <<"miopen_perf_eval">>, <<"applicability">>},
        u \in BOOLEAN, l \in {"", "L1"}, n \in 0..NumJobs :
       args = Parsed(f, u, l, n)

NextOperation == UpdateOperation

SpecOperation == InitOperation /\ [][NextOperation]_vars

\* --------------------------------------------------------- either library
\* go_fish runs the library its arguments name: the MIOpen claimants with
\* their queue, or the rocMLIR workers
RocMLIRRuns == \A c \in Claimants : claim[c].pc = "off"

InitEither == Init \/ InitTuning

NextEither ==
  \/ NextDispatch
  \/ \E w \in Claimants : RocMLIRRuns /\ StepClaim(w)
  \/ \E w \in Claimants : RocMLIRRuns /\ StepNoJob(w)
  \/ \E w \in Claimants, o \in AttemptOutcomes : RocMLIRRuns /\ Attempt(w, o)
  \/ \E w \in Claimants : RocMLIRRuns /\ Handler(w)

SpecEither == InitEither /\ [][NextEither]_vars

\* ----------------------------------------------------------- session_retry
\* no MIOpen claimant runs
NoClaims ==
  /\ job = [j \in Jobs |-> InvalidRow(j)]
  /\ job0 = job
  /\ args = NoArgs
  /\ lockedBy = [j \in Jobs |-> NoOne]
  /\ claim = [c \in Claimants |-> Off]
  /\ ctxs = {}
  /\ redelivered = MaxRedeliveries
  /\ holder = [j \in Jobs |-> {}]
  /\ last = NoLast
  /\ scen = [j \in Jobs |-> Void]
  /\ cres = [j \in Jobs |-> "void"]

\* session_retry is about to be called; what its calls will meet is drawn here
InitRetry ==
  /\ NoClaims
  /\ NoWorkers
  /\ pool = NoPool
  /\ built = NoBuilt
  /\ load = NoLoad
  /\ \E outs \in CallSeqs : sr = [pc |-> "call", outs |-> outs, res |-> NoOutcome]

NextRetry == SessionRetry

SpecRetry == InitRetry /\ [][NextRetry]_vars

\* ----------------------------------------------------- the worker pool
\* the operations of the mutually exclusive argument group that reach
\* compose_worker_list, with the fin step and the GPU limit of an eval step
ComposeModes ==
  {<<"fin_steps", <<"miopen_find_eval">>, g>> : g \in 0..MaxSlots}
    \cup {<<"fin_steps", <<"miopen_find_compile">>, 0>>}
    \cup {<<op, <<>>, 0>> :
            op \in {"update_solvers", "update_applicability", "check_status", "init_session"}}

\* run: the machines load_machines returns, with their available GPUs, their
\* process slots and what check_status finds; the pending configs number
\* around the multiples of 100
InitCompose ==
  /\ NoClaims
  /\ NoWorkers
  /\ sr = NoCall
  /\ built = NoBuilt
  /\ load = NoLoad
  /\ \E mode \in ComposeModes, restart \in BOOLEAN :
       \E machines \in
            UNION {[1..n -> [avail_gpus : 0..MaxSlots, num_procs : 0..MaxSlots,
                             status_ok : IF mode[1] = "check_status"
                                           THEN BOOLEAN ELSE {TRUE}]] :
                     n \in 1..NumMachines},
          len_rows \in (IF mode[1] = "update_applicability"
                          THEN {0, 1, 100, 101, 200, 201} ELSE {0}) :
         pool = [pc |-> "run",
                 args |-> ComposeArgs(mode[1], mode[2], mode[3], restart),
                 machines |-> machines, len_rows |-> len_rows,
                 res |-> NoComposed, joined |-> <<>>]

NextCompose == Compose \/ Join

SpecCompose == InitCompose /\ [][NextCompose]_vars

\* ------------------------------------------------------ the context builder
\* the config ids the jobs refer to
Configs == {ConfigOf(j) : j \in Jobs}

\* a claimed job as get_jobs returns it, and a config row with its tensors
JobEntry(j, set_state) == [id |-> j, config |-> ConfigOf(j), state |-> set_state]
ConfigEntry(c) == [id |-> c, valid |-> 1, tensors |-> "attached"]

\* compose_work_objs_fin: the valid configs of the batch are selected
\* ("where valid=1 and id in (...)"), and each job is paired with
\* cfg_map[job.config], which raises KeyError when that config was not selected
compose_work_objs_fin(job_entries, cfg_valid) ==
  LET ids == {job_entries[i].config : i \in DOMAIN job_entries}
      cfg_map == [c \in {k \in ids : cfg_valid[k] = 1} |-> ConfigEntry(c)]
  IN  IF \E i \in DOMAIN job_entries : job_entries[i].config \notin DOMAIN cfg_map
        THEN [raised |-> "KeyError", ret |-> <<>>]
        ELSE [raised |-> "none",
              ret |-> [i \in DOMAIN job_entries |->
                         <<job_entries[i], cfg_map[job_entries[i].config]>>]]

\* the columns of the find-db table, in the order of the schema
FindDbColumns ==
  <<"id", "insert_ts", "update_ts", "valid", "config", "solver", "kernel_time", "session">>

\* list.remove(x): the list without the first x
Remove(lst, x) ==
  LET at == {i \in DOMAIN lst : lst[i] = x}
  IN  IF at = {} THEN lst
      ELSE LET k == CHOOSE i \in at : \A n \in at : i <= n
           IN  SubSeq(lst, 1, k - 1) \o SubSeq(lst, k + 1, Len(lst))

\* get_fdb_attr: the column names without the two timestamps
get_fdb_attr_m == Remove(FindDbColumns, "insert_ts")

get_fdb_attr == Remove(Remove(FindDbColumns, "insert_ts"), "update_ts")

get_context_items == "kwargs"

\* build_context: one context per pair of serialized_jobs, appended in order
context_list(serialized_jobs, operation, session) ==
  [i \in DOMAIN serialized_jobs |->
     [job |-> serialized_jobs[i][1], config |-> serialized_jobs[i][2],
      operation |-> operation, arch |-> session.arch, num_cu |-> session.num_cu,
      kwargs |-> get_context_items, fdb_attr |-> get_fdb_attr]]

\* serialize_jobs, then build_context
BuildContexts ==
  /\ built.pc = "claimed"
  /\ LET entries == compose_work_objs_fin(built.batch, built.cfg_valid)
     IN  built' = [built EXCEPT
                     !.pc = "built",
                     !.res = [raised |-> entries.raised,
                              contexts |-> context_list(entries.ret, built.operation,
                                                        built.session)]]
  /\ UNCHANGED <<job, job0, lockedBy, claim, args, ctxs, redelivered, holder, last, scen,
                 cres, rjob, worker, results, sr, pool, load>>

\* the batches get_jobs can return: claimed jobs, each once, in any order
RECURSIVE Batches(_)
Batches(S) ==
  {<<>>} \cup UNION {{<<j>> \o b : b \in Batches(S \ {j})} : j \in S}

\* a batch was claimed for an operation of a session, over a config table
InitContext ==
  /\ NoClaims
  /\ NoWorkers
  /\ sr = NoCall
  /\ pool = NoPool
  /\ load = NoLoad
  /\ \E b \in Batches(Jobs), cfg_valid \in [Configs -> {0, 1}],
        session \in {[arch |-> "gfx908", num_cu |-> 120], [arch |-> "gfx90a", num_cu |-> 104]},
        op \in {<<"COMPILE", "compile_start">>, <<"EVAL", "eval_start">>} :
       built = [pc |-> "claimed",
                batch |-> [i \in DOMAIN b |-> JobEntry(b[i], op[2])],
                cfg_valid |-> cfg_valid, operation |-> op[1], session |-> session,
                res |-> [raised |-> "none", contexts |-> <<>>]]

NextContext == BuildContexts

SpecContext == InitContext /\ [][NextContext]_vars

\* ------------------------------------------------------------ the loaders
\* the job table is empty and each loader is about to call add_jobs
InitLoad ==
  /\ NoClaims
  /\ NoWorkers
  /\ sr = NoCall
  /\ pool = NoPool
  /\ built = NoBuilt
  /\ \E as \in [Loaders -> LoadArgs] :
       load = [tab |-> {}, loader |-> [l \in Loaders |-> [LOff EXCEPT !.pc = "start", !.args = as[l]]]]

NextLoad ==
  \/ \E l \in Loaders : LoadRead(l)
  \/ \E l \in Loaders : LoadQuick(l)
  \/ \E l \in Loaders : LoadOne(l)

SpecLoad == InitLoad /\ [][NextLoad]_vars

\* =================================================================
\* Properties of the claim (checked under SpecClaim)
\* =================================================================
RECURSIVE SumLen(_)
SumLen(S) ==
  IF S = {} THEN 0
  ELSE LET c == CHOOSE x \in S : TRUE IN Len(claim[c].batch) + SumLen(S \ {c})

\* the rows the round's claim is after, in the table as the round found it
EligibleAtStart ==
  {j \in Jobs :
     /\ job0[j].session = args.session_id
     /\ job0[j].valid = 1
     /\ args.label # "" => job0[j].reason = args.label
     /\ job0[j].retries < max_job_retries
     /\ job0[j].state \in args.find_state
     /\ args.fin_steps[1] \in job0[j].fin_step}

BatchSize == IF args.claim_num = 0 THEN NumJobs ELSE args.claim_num
Polled == {c \in Claimants : claim[c].pc \notin {"idle", "off"}}
Answered == {c \in Polled : ~claim[c].failed}

\* C1: claimants that run the claim concurrently on the same eligible rows get
\* disjoint batches, and once all N of them have run it, the rows returned in
\* total number min(N * batch_size, eligible rows), N counting the claimants
\* whose query was answered.
C1_NoDoubleClaim ==
  /\ \A c \in Claimants : Cardinality(Range(claim[c].batch)) = Len(claim[c].batch)
  /\ \A c, d \in Claimants :
       c # d => Range(claim[c].batch) \cap Range(claim[d].batch) = {}
  /\ Polled = Claimants =>
       SumLen(Claimants) = Min(Cardinality(Answered) * BatchSize,
                               Cardinality(EligibleAtStart))

\* two claimants hold their open transactions at once, each with rows, and an
\* eligible row is left over
C1_Witness ==
  /\ \A c \in Claimants : claim[c].pc = "selected" /\ claim[c].batch # <<>>
  /\ SumLen(Claimants) < Cardinality(EligibleAtStart)

\* C3: every row a claim returns is of the requested session, valid, in a
\* requested source state, below the retry ceiling, of the label when one is
\* given, and matches the fin-step filter; with a batch size at most that many
\* rows are returned.
C3_ClaimFilter ==
  \A c \in Claimants :
    claim[c].pc = "selected" =>
      /\ \A i \in DOMAIN claim[c].batch :
           LET row == job[claim[c].batch[i]]
           IN  /\ row.session = args.session_id
               /\ row.valid = 1
               /\ row.state \in args.find_state
               /\ row.retries < max_job_retries
               /\ args.label # "" => row.reason = args.label
               /\ args.fin_steps[1] \in row.fin_step
      /\ args.claim_num # 0 => Len(claim[c].batch) <= args.claim_num

\* a claim with a label and a batch size returned rows and left out a valid row
\* of the session with another label
C3_Witness ==
  \E c \in Claimants :
    /\ claim[c].pc = "selected" /\ claim[c].batch # <<>>
    /\ args.label # "" /\ args.claim_num # 0
    /\ \E j \in Jobs \ Range(claim[c].batch) :
         job[j].reason # args.label /\ job[j].valid = 1 /\ job[j].session = 1
           /\ job[j].state \in args.find_state

\* the sort key of a row
KeyLeq(a, b) ==
  \/ job[a].retries < job[b].retries
  \/ job[a].retries = job[b].retries /\ job[a].config <= job[b].config

\* rows the claim of c could still have taken: eligible and locked by nobody
LeftOver(c) ==
  {j \in Jobs \ Range(claim[c].batch) :
     /\ lockedBy[j] = NoOne
     /\ job[j].session = args.session_id /\ job[j].valid = 1
     /\ args.label # "" => job[j].reason = args.label
     /\ job[j].retries < max_job_retries /\ job[j].state \in args.find_state
     /\ args.fin_steps[1] \in job[j].fin_step}

\* C4: the rows of one claim come in ascending order of (retries, config), with
\* or without a batch size; with a batch size smaller than the number of
\* eligible rows they are the first rows of that order; jobs 1,2,3 with retries
\* 2,0,1 are returned by a claim of size 3 as 2,3,1.
C4_ClaimOrder ==
  \A c \in Claimants :
    claim[c].pc = "selected" =>
      /\ \A i, k \in DOMAIN claim[c].batch :
           i < k => KeyLeq(claim[c].batch[i], claim[c].batch[k])
      /\ \A j \in LeftOver(c) :
           /\ Len(claim[c].batch) = args.claim_num
           /\ \A i \in DOMAIN claim[c].batch : KeyLeq(claim[c].batch[i], j)
      /\ ( /\ NumJobs = 3 /\ args.claim_num = 3 /\ Len(claim[c].batch) = 3
           /\ [j \in Jobs |-> job[j].retries] = <<2, 0, 1>> )
         => claim[c].batch = <<2, 3, 1>>

\* a claim of size 2 took, of three eligible rows with retries 2,0,1, the two
\* with the fewest retries
C4_Witness ==
  \E c \in Claimants :
    /\ claim[c].pc = "selected" /\ args.claim_num = 2
    /\ [j \in 1..3 |-> job[j].retries] = <<2, 0, 1>>
    /\ claim[c].batch = <<2, 3>>
    /\ LeftOver(c) = {1}

\* C15: a claim issued when no row is eligible returns an empty result, not an
\* error, and changes no job row: every claimant of such a round that the store
\* answers gets no row, and the table stays as it was, with no row locked.
C15_EmptyClaim ==
  EligibleAtStart = {} =>
    /\ \A c \in Claimants : claim[c].batch = <<>>
    /\ job = job0
    /\ \A j \in Jobs : lockedBy[j] = NoOne

\* every claimant ran the claim and was answered, on a table with valid rows
\* of the session none of which is eligible
C15_Witness ==
  /\ EligibleAtStart = {}
  /\ \E j \in Jobs : job0[j].valid = 1 /\ job0[j].session = args.session_id
  /\ \A c \in Claimants : claim[c].pc = "done" /\ ~claim[c].failed

\* C16: a claimant whose claim query failed has no rows and holds no row lock;
\* when it is the only claimant that has run, the table is as it was and every
\* row is unlocked, so the rows stay claimable by the others.
C16_FailedClaimRolledBack ==
  \A c \in Claimants :
    claim[c].failed =>
      /\ claim[c].batch = <<>>
      /\ \A j \in Jobs : lockedBy[j] # c
      /\ Polled = {c} => job = job0 /\ \A j \in Jobs : lockedBy[j] = NoOne

\* the query of one claimant failed on a table with eligible rows, and another
\* claimant has those rows in its open claim
C16_Witness ==
  \E c, d \in Claimants :
    /\ claim[c].failed /\ claim[d].pc = "selected"
    /\ EligibleAtStart # {}
    /\ Range(claim[d].batch) = EligibleAtStart

\* =================================================================
\* Properties of the life cycle (checked under Spec and SpecResults)
\* =================================================================
\* claimants that have job j: claimed and no result ingested since, or returned
\* by their open claim
Claimed(j) ==
  holder[j] \cup {c \in Claimants :
                    claim[c].pc = "selected" /\ j \in Range(claim[c].batch)}

\* C2: at most one claimant has a job in flight: once a claimant has claimed
\* it, no claim of another claimant returns it until a result for it has been
\* ingested, and until then the job stays in an in-flight state.
C2_SingleHolder ==
  \A j \in Jobs :
    /\ Cardinality(Claimed(j)) <= 1
    /\ holder[j] # {} => job[j].state \in InFlightStates

\* a job that was claimed, had a failed result ingested and was claimed again,
\* by the second claimant
C2_Witness ==
  \E j \in Jobs :
    holder[j] = {2} /\ job[j].state = "eval_start" /\ job[j].retries = 1

\* C5 as stated: three failed evaluations in a row, from compiled with
\* retries 0, end in errored with retries 3.
C5_Original ==
  \A j \in Jobs :
    scen[j] = <<"F", "F", "F">> => job[j].state = "errored" /\ job[j].retries = 3

\* C5: a job that starts compiled with retries 0 and has three failed
\* evaluation results ingested in a row, re-claimed in between, ends in
\* errored with retries 2.
C5_ThreeFailures ==
  \A j \in Jobs :
    scen[j] = <<"F", "F", "F">> => job[j].state = "errored" /\ job[j].retries = 2

C5_Witness == \E j \in Jobs : scen[j] = <<"F", "F", "F">>

\* the claim for evaluation would return the row
EvalClaimable(row) ==
  LET a == ClaimArgs(<<"miopen_find_eval">>, "", 0)
  IN  /\ row.session = a.session_id /\ row.valid = 1
      /\ row.retries < max_job_retries
      /\ row.state \in {"new", "compiled"}
      /\ "miopen_find_eval" \in row.fin_step

\* C6: a job that fails evaluation twice, re-claimed after each failure, and
\* then succeeds ends in evaluated with retries 2; after the second failure it
\* is claimable (or already claimed again).
C6_TwoFailuresThenSuccess ==
  \A j \in Jobs :
    /\ scen[j] = <<"F", "F", "S">> => job[j].state = "evaluated" /\ job[j].retries = 2
    /\ scen[j] = <<"F", "F">> =>
         /\ job[j].retries = 2
         /\ \/ job[j].state = "compiled" /\ EvalClaimable(job[j])
            \/ job[j].state = "eval_start" /\ holder[j] # {}

C6_Witness == \E j \in Jobs : scen[j] = <<"F", "F", "S">>

Ingested == last.kind = "ingest"

C8_ExactlyOneWrite == Ingested => last.writes = 1

\* the tag of the payload is none the processor of the operation knows
Unrecognized(operation, tag) ==
  tag \notin (IF operation = "COMPILE" THEN CompileTags ELSE EvalTags)

\* the job is in the success state of the operation
InSuccessState(operation, state) ==
  \/ operation = "COMPILE" /\ state = "compiled"
  \/ operation = "EVAL" /\ state = "evaluated"

\* C9: a successful payload applied (again) to a job that is already in the
\* success state of its phase, the store raising nothing, leaves the job's
\* state and retries as they were.
C9_IdempotentSuccess ==
  ( /\ Ingested /\ last.status = "success" /\ last.exc = "ok"
    /\ ~Unrecognized(last.operation, last.tag)
    /\ InSuccessState(last.operation, last.pre_state) )
  => /\ job[last.job].state = last.pre_state
     /\ job[last.job].retries = last.pre_retries

\* the result of a context is delivered a second time to a job in the success
\* state
C9_Witness ==
  /\ Ingested /\ last.dup /\ last.status = "success" /\ last.exc = "ok"
  /\ ~Unrecognized(last.operation, last.tag)
  /\ InSuccessState(last.operation, last.pre_state)
  /\ last.writes = 1

\* C10: an empty payload, or one with no tag the processor knows, never puts
\* the job into the success state of the phase.
C10_UnrecognizedFails ==
  (Ingested /\ Unrecognized(last.operation, last.tag) /\ last.writes > 0)
    => ~InSuccessState(last.operation, job[last.job].state)

\* C11: a DataError of the store during an ingestion, of a compile result or of
\* an eval result, is handled as a failure of the job: the processor returns
\* normally and the job is errored.
C11_DataErrorErrored ==
  (Ingested /\ last.exc = "DataError") =>
    /\ last.raised = "None"
    /\ job[last.job].state = "errored"

\* a result with a tag the processor knows and a failure status was ingested,
\* the store raising nothing
FailedResult ==
  /\ Ingested /\ ~Unrecognized(last.operation, last.tag)
  /\ last.status = "failure" /\ last.exc = "ok"

EvalJobsSettled ==
  \A j \in Jobs :
    (job[j].valid = 1 /\ "miopen_find_eval" \in job[j].fin_step)
      => job[j].state \in {"evaluated", "errored"}

\* C32: with claimants that keep polling and a result ingested for every
\* claimed job, every valid job with an eval step ends up evaluated or errored,
\* and before that at most 3 eval results are ingested for it, one per claim.
C32_EvalTerminates ==
  /\ <>EvalJobsSettled
  /\ [](\A j \in Jobs : scen[j] # Void => Len(scen[j]) <= 3)

\* C36: the cache rows of a job are cleared by an ingestion exactly when the
\* ingestion is of an eval result and has set the job to evaluated: never when
\* the job is reverted to compiled or set to errored, never when the processor
\* raises, and never by the ingestion of a compile result.
C36_CacheClearedOnEvalSuccess ==
  Ingested =>
    (last.cache_cleared <=>
       /\ last.operation = "EVAL"
       /\ last.writes = 1
       /\ job[last.job].state = "evaluated")

\* an eval result was ingested that cleared the cache rows
C36_Witness ==
  /\ Ingested /\ last.operation = "EVAL" /\ last.pre_state = "eval_start"
  /\ last.cache_cleared /\ job[last.job].state = "evaluated"

\* C40: the retries of every job stay between 0 and 3 and never decrease; a
\* step changes them only by adding one, and only the ingestion of a failed
\* eval result that reverts the job to compiled does so.
C40_RetriesOnlyGrow ==
  /\ [](\A j \in Jobs : job[j].retries \in 0..3)
  /\ [][\A j \in Jobs :
          /\ job'[j].retries >= job[j].retries
          /\ job'[j].retries # job[j].retries =>
               /\ job'[j].retries = job[j].retries + 1
               /\ last'.kind = "ingest" /\ last'.job = j /\ last'.operation = "EVAL"
               /\ job'[j].state = "compiled"]_vars

\* C13: errored is permanent: no claim and no ingestion, a duplicate or late
\* delivery included, changes the state of a job that is errored.
C13_ErroredPermanent ==
  [][\A j \in Jobs : job[j].state = "errored" => job'[j].state = "errored"]_vars

\* =================================================================
\* Properties of one batch of compiles (checked under SpecBatch)
\* =================================================================
ValidJobs == {j \in Jobs : job0[j].valid = 1}
Marked(m) == {j \in ValidJobs : cres[j] = m}
InState(st) == {j \in ValidJobs : job[j].state = st}

StepReturned == last.kind = "step"

\* C17: a call of step claims at most one job, which goes from new to running
\* while every other job stays as it is; a call that finds no job in state new
\* returns False and changes no job.
C17_ClaimOne ==
  [][\A w \in Claimants :
       worker[w].pc = "idle" =>
         /\ worker'[w].pc # "idle" =>
              \E j \in TuningJobs :
                /\ worker'[w].job = j
                /\ rjob[j].state = "new" /\ rjob'[j].state = "running"
                /\ \A k \in TuningJobs \ {j} : rjob'[k] = rjob[k]
         /\ (last'.kind = "step" /\ last'.worker = w /\ ~last'.ret) =>
              /\ rjob' = rjob
              /\ \A j \in TuningJobs : rjob[j].state # "new"]_vars

\* a worker has claimed one job and another job is still new
C17_Witness ==
  \E w \in Claimants, j, k \in TuningJobs :
    /\ worker[w].pc = "run" /\ worker[w].job = j /\ worker[w].attempt = 1
    /\ rjob[j].state = "running" /\ rjob[k].state = "new"

\* C18: when step returns after it claimed a job, the job is completed or
\* error: error with the message built from the output after an exit code
\* other than 0, error with the text of the exception after an exception; a
\* job is running only while a step works on it.
C18_StepSettlesJob ==
  /\ (StepReturned /\ last.ret) =>
       /\ rjob[last.job].state \in {"completed", "error"}
       /\ last.how = "nonzero" => rjob[last.job] = [state |-> "error", result |-> "msg"]
       /\ last.how = "ValueError" => rjob[last.job] = [state |-> "error", result |-> "verr"]
       /\ last.how = "handler" => rjob[last.job] = [state |-> "error", result |-> "exc"]
  /\ \A j \in TuningJobs :
       rjob[j].state = "running" => \E w \in Claimants : worker[w].pc # "idle" /\ worker[w].job = j

\* a step ended in the exception handler
C18_Witness == StepReturned /\ last.ret /\ last.how = "handler"

\* C19: within one step run_cmd runs at most 3 times; an exception reaches the
\* handler only from the third attempt, those of the first and second attempt
\* are followed by another attempt; and every step that claimed a job returns.
C19_BoundedRetry ==
  /\ [](/\ \A w \in Claimants :
             /\ worker[w].attempt <= 3
             /\ worker[w].pc = "raise" => worker[w].attempt = 3
         /\ StepReturned =>
             /\ last.runs <= 3
             /\ last.how = "handler" => last.runs = 3)
  /\ \A w \in Claimants : (worker[w].pc # "idle") ~> (worker[w].pc = "idle")

\* the third attempt of a step raised and the exception is on its way to the
\* handler
C19_Witness == \E w \in Claimants : worker[w].pc = "raise" /\ worker[w].attempt = 3

\* C20 as stated: a failure of the workload, an exit code other than 0
\* included, is reported as error only after the 3 attempts.
C20_Original ==
  (StepReturned /\ last.ret /\ rjob[last.job].state = "error") => last.runs = 3

\* C20: an exit code other than 0, or a ValueError of run_cmd, makes the job
\* error in the attempt that met it, without another attempt; any other
\* exception is followed by another attempt of the same step, and after the
\* third the job is error; the text of the failure is the job's result.
C20_ExceptionsRetried ==
  /\ \A w \in Claimants :
       worker[w].pc # "idle" => rjob[worker[w].job].state \in {"running", "completed"}
  /\ (StepReturned /\ last.ret) =>
       /\ last.how \in {"nonzero", "ValueError"} =>
            /\ rjob[last.job].state = "error"
            /\ rjob[last.job].result = (IF last.how = "nonzero" THEN "msg" ELSE "verr")
       /\ last.how = "handler" =>
            /\ last.runs = 3
            /\ rjob[last.job] = [state |-> "error", result |-> "exc"]
       /\ rjob[last.job].state = "error" => last.how \in {"nonzero", "ValueError", "handler"}

\* the first attempt of a step ended with an exit code other than 0 and the
\* step returned
C20_Witness == StepReturned /\ last.ret /\ last.how = "nonzero" /\ last.runs = 1

\* C21: after an exit code 0 the job is completed and stays so whatever the
\* result-parsing step does: when it finds no usable data, when the row cannot
\* be stored, or when it fails, the step returns with the job completed and no
\* results row, the workload is not run again and the job does not become
\* error.
C21_ParseFailureTolerated ==
  /\ \A w \in Claimants :
       worker[w].pc # "idle" => rjob[worker[w].job].state # "completed"
  /\ (StepReturned /\ last.ret /\ last.how \in {"zero_bad_data", "zero_not_stored"}) =>
       /\ rjob[last.job].state = "completed"
       /\ last.job \notin results

\* =================================================================
\* Properties of the dispatch (checked under SpecDispatch)
\* =================================================================
\* a job that was claimed and has no context on the queue
Undispatched(j) ==
  /\ job[j].state \in {"compile_start", "eval_start"}
  /\ \A x \in ctxs : x.job # j
  /\ \A c \in Claimants : j \notin Range(claim[c].batch)

\* C24: when the queue cannot be reached, the exception of the enqueue call
\* reaches the caller; the job of the context is in its _start state with no
\* context on the queue, and from then on no step of the system changes its
\* row, puts a context for it on the queue or returns it in a claim.
C24_DispatchFailure ==
  /\ [](last.kind = "dispatch" =>
          /\ last.raised # "none"
          /\ Undispatched(last.job))
  /\ [][\A j \in Jobs :
          Undispatched(j) => (job'[j] = job[j] /\ Undispatched(j)')]_vars

\* the enqueue of a compile job failed (a compile job whose context was
\* ingested is not in compile_start any more), and a claimant has polled since
C24_Witness ==
  \E j \in Jobs :
    /\ Undispatched(j) /\ job[j].state = "compile_start"
    /\ holder[j] # {}
    /\ last.kind = "none"

\* =================================================================
\* Properties of the fin-step filter (checked under SpecFilter)
\* =================================================================
\* the jobs the fin-step filter of the round lets through
PassFilter ==
  {j \in Jobs :
     IF args.fin_steps # <<>>
       THEN Head(args.fin_steps) \in job[j].fin_step
       ELSE job[j].fin_step = {"not_fin"}}

\* C35: the rows a claim returns are jobs in whose fin_step value the first
\* requested step occurs, whatever other steps the value holds and whatever
\* steps are requested after the first; a claim without a fin step returns
\* jobs whose fin_step is not_fin only; and the first claim of a round, when
\* it has no batch size, returns every such job.
C35_FinStepFilter ==
  \A c \in Claimants :
    claim[c].pc = "selected" =>
      /\ Range(claim[c].batch) \subseteq PassFilter
      /\ (args.claim_num = 0 /\ \A j \in Jobs : lockedBy[j] \in {NoOne, c})
           => Range(claim[c].batch) = PassFilter

\* a claim for the eval step, requested before the compile step, returned a
\* job loaded for both steps and left out a job loaded for the compile step
C35_Witness ==
  \E c \in Claimants :
    /\ claim[c].pc = "selected" /\ args.claim_num = 0
    /\ args.fin_steps = <<"miopen_find_eval", "miopen_find_compile">>
    /\ \E j \in Range(claim[c].batch) :
         job[j].fin_step = {"miopen_find_compile", "miopen_find_eval"}
    /\ \E j \in Jobs \ Range(claim[c].batch) : job[j].fin_step = {"miopen_find_compile"}

\* =================================================================
\* Properties of update_operation (checked under SpecOperation)
\* =================================================================
\* C34: after update_operation the source set is {new} and the marker state
\* compile_start for the compile steps, {new, compiled} and eval_start for the
\* eval steps, and the source set of no operation holds a _start state,
\* running or errored.
C34_SourceSets ==
  args.pc = "updated" =>
    /\ (args.fin_steps \in {<<"miopen_find_compile">>, <<"miopen_perf_compile">>}) =>
         /\ args.find_state = {"new"}
         /\ args.set_state = "compile_start"
         /\ args.operation = "COMPILE"
    /\ (args.fin_steps \in {<<"miopen_find_eval">>, <<"miopen_perf_eval">>}) =>
         /\ args.find_state = {"new", "compiled"}
         /\ args.set_state = "eval_start"
         /\ args.operation = "EVAL"
    /\ args.find_state \cap (InFlightStates \cup {"errored"}) = {}
    /\ args.find_state \subseteq {"new", "compiled"}

\* update_operation was called for the perf eval step
C34_Witness ==
  /\ args.pc = "updated" /\ args.fin_steps = <<"miopen_perf_eval">>
  /\ args.set_state = "eval_start"

\* =================================================================
\* Properties of both libraries (checked under SpecEither)
\* =================================================================
\* C33: nothing reclaims a job in flight: the rows a claim returns are never in
\* compile_start, eval_start or running; a step that is not the ingestion of a
\* result for the job leaves a job in compile_start or eval_start as it is, and
\* a job that has no context on the queue any more stays in its _start state;
\* a rocMLIR worker claims jobs in state new only, and a running job is
\* changed by nothing but the step of the worker that claimed it.
C33_NoReclaim ==
  /\ [](\A c \in Claimants :
          claim[c].pc = "selected" =>
            \A i \in DOMAIN claim[c].batch : job[claim[c].batch[i]].state \notin InFlightStates)
  /\ [][\A j \in Jobs :
          (job[j].state \in InFlightStates /\ ~(last'.kind = "ingest" /\ last'.job = j))
            => job'[j] = job[j]]_vars
  /\ [][\A j \in Jobs :
          (job[j].state \in InFlightStates /\ (\A x \in ctxs : x.job # j))
            => (job'[j] = job[j] /\ (\A x \in ctxs' : x.job # j))]_vars
  /\ [][\A w \in Claimants :
          (worker[w].pc = "idle" /\ worker'[w].pc # "idle")
            => rjob[worker'[w].job].state \notin InFlightStates]_vars
  /\ [][\A j \in TuningJobs :
          (rjob[j].state = "running" /\ rjob'[j] # rjob[j])
            => \E w \in Claimants :
                 worker[w].job = j /\ worker[w].pc # "idle" /\ worker'[w] # worker[w]]_vars

\* an eval job is in eval_start with no context on the queue, and a claimant
\* has polled since
C33_Witness ==
  \E j \in Jobs :
    /\ job[j].state = "eval_start" /\ holder[j] # {}
    /\ \A x \in ctxs : x.job # j
    /\ \A c \in Claimants : claim[c].pc = "idle"
    /\ last.kind = "none"

\* =================================================================
\* Properties of compose_worker_list (checked under SpecCompose)
\* =================================================================
ComposedNow == pool.pc \in {"composed", "joined"}

\* the events of kind ev in the log of the composition, and those of machine m
Events(ev) == {k \in DOMAIN pool.res.log : pool.res.log[k].ev = ev}
EventsOn(ev, m) == {k \in Events(ev) : pool.res.log[k].m = m}

\* the workers of machine m in the returned list
ListedOn(m) == {k \in DOMAIN pool.res.worker_lst : pool.res.worker_lst[k][1] = m}

\* the worker ids of machine m: GPUs for an eval step, process slots otherwise
IsEval == pool.args.fin_steps # <<>> /\ pool.args.fin_steps[1] \in EvalSteps
Slots(m) == IF IsEval THEN pool.machines[m].avail_gpus ELSE pool.machines[m].num_procs

CeilDiv100(n) == (n + 99) \div 100

\* the ids left to machine m after the cap of update_applicability
Eligible(m) ==
  IF pool.args.update_applicability
    THEN Min(Slots(m), CeilDiv100(pool.len_rows))
    ELSE Slots(m)

\* C25 as stated: if any machine of the list has no eligible worker id, the
\* composition returns None.
C25_Original ==
  (ComposedNow /\ \E m \in DOMAIN pool.machines : Eligible(m) = 0) =>
    pool.res.ret = "None"

\* the machines whose worker ids the composition asks for: none when the
\* machines are restarted, only the first when the solvers are updated, and
\* otherwise those up to the first one without an eligible id
Reached(m) ==
  /\ ~pool.args.restart_machine
  /\ \A k \in 1..(m - 1) : Eligible(k) > 0
  /\ pool.args.update_solvers => m = 1

\* C25: the composition returns None, and not a list, exactly when a machine
\* it reaches has no eligible worker id, whatever the machines before it
\* gave; main then joins no worker.
C25_ZeroIdsFail ==
  ComposedNow =>
    /\ pool.res.ret = "None" <=>
         \E m \in DOMAIN pool.machines : Reached(m) /\ Eligible(m) = 0
    /\ pool.res.ret \in {"None", "list"}
    /\ (pool.pc = "joined" /\ pool.res.ret = "None") => pool.joined = <<>>

\* the second machine has no eligible id, the first one had started workers
C25_Witness ==
  /\ pool.pc = "joined" /\ pool.res.ret = "None"
  /\ Len(pool.machines) >= 2 /\ Eligible(1) > 0 /\ Eligible(2) = 0
  /\ EventsOn("start", 1) # {}

\* C26: in a composition that launches job workers (no restart, no solver
\* update, every machine with an eligible id) the returned list holds, per
\* machine, as many workers as the smaller of the GPU limit and the available
\* GPUs for an eval step, and as many as the process slots for the other
\* operations (update_applicability has its own cap).
C26_WorkersPerMachine ==
  (/\ ComposedNow /\ pool.res.ret = "list"
   /\ ~pool.args.restart_machine /\ ~pool.args.update_solvers
   /\ ~pool.args.update_applicability) =>
    \A m \in DOMAIN pool.machines :
      Cardinality(ListedOn(m)) =
        IF IsEval
          THEN IF pool.args.gpu_lim # 0
                 THEN Min(pool.args.gpu_lim, pool.machines[m].avail_gpus)
                 ELSE pool.machines[m].avail_gpus
          ELSE pool.machines[m].num_procs

\* C27: under update_applicability every machine the composition reaches gets
\* min(process slots, ceil(pending configs / 100)) workers, started and
\* listed; the pending configs are counted before the first worker of the
\* machine is started; with no pending config no worker is started at all.
C27_ApplicabilityCap ==
  (ComposedNow /\ pool.args.update_applicability) =>
    /\ \A m \in DOMAIN pool.machines :
         Reached(m) =>
           /\ Cardinality(EventsOn("start", m)) =
                Min(pool.machines[m].num_procs, CeilDiv100(pool.len_rows))
           /\ pool.res.ret = "list" =>
                Cardinality(ListedOn(m)) = Cardinality(EventsOn("start", m))
           /\ \A q \in EventsOn("query_cfgs", m), k \in EventsOn("start", m) : q < k
           /\ EventsOn("start", m) # {} => EventsOn("query_cfgs", m) # {}
    /\ pool.len_rows = 0 => Events("start") = {}

\* 100 pending configs leave one worker to a machine with two process slots
C27_Witness ==
  /\ ComposedNow /\ pool.args.update_applicability /\ pool.res.ret = "list"
  /\ pool.len_rows = 100
  /\ pool.machines[1].num_procs = 2
  /\ Cardinality(ListedOn(1)) = 1

\* C28: a composition calls do_fin_work at most once, whatever the number of
\* machines: once when the solvers are updated and the first machine has an
\* eligible id, never otherwise; and a composition that called it has made,
\* started and listed no worker.
C28_SolverUpdateOnce ==
  ComposedNow =>
    /\ Cardinality(Events("do_fin_work")) <= 1
    /\ Events("do_fin_work") # {} <=>
         (pool.args.update_solvers /\ ~pool.args.restart_machine /\ Eligible(1) > 0)
    /\ Events("do_fin_work") # {} =>
         /\ Events("start") = {} /\ Events("FinClass") = {}
         /\ pool.res.ret = "list" /\ pool.res.worker_lst = <<>>

\* the solvers were updated in a composition over two machines with process
\* slots
C28_Witness ==
  /\ ComposedNow /\ Events("do_fin_work") # {}
  /\ Len(pool.machines) >= 2
  /\ \A m \in DOMAIN pool.machines : pool.machines[m].num_procs > 0

\* C29: when the machines are restarted, each machine gets one restart that
\* is not waited for, and no worker id is asked of it: nothing is queried,
\* made, started or updated, and the composition returns the empty list, not
\* None.
C29_RestartSkips ==
  (ComposedNow /\ pool.args.restart_machine) =>
    /\ \A m \in DOMAIN pool.machines :
         Cardinality(EventsOn("restart_server_nowait", m)) = 1
    /\ Len(pool.res.log) = Len(pool.machines)
    /\ pool.res.ret = "list" /\ pool.res.worker_lst = <<>>

\* two machines were restarted, one of them without an eligible worker id
C29_Witness ==
  /\ pool.pc = "joined" /\ pool.args.restart_machine
  /\ Len(pool.machines) >= 2
  /\ pool.machines[1].num_procs = 0 /\ pool.machines[2].num_procs > 0
  /\ pool.args.update_applicability

\* the workers the composition started
StartedWorkers ==
  {<<pool.res.log[k].m, pool.res.log[k].idx>> : k \in Events("start")}

\* C39: every worker the composition started is in what it returns (none are
\* when it returns None), and once
\* main has joined the workers of the run, every started worker is joined.
C39_StartedAreJoined ==
  /\ ComposedNow => StartedWorkers \subseteq Range(pool.res.worker_lst)
  /\ pool.pc = "joined" => StartedWorkers \subseteq Range(pool.joined)

\* =================================================================
\* Properties of the context builder (checked under SpecContext)
\* =================================================================
\* C30: the contexts built for a claimed batch, every job of which has a pair,
\* are as many as the jobs and in their order; the i-th context carries the
\* i-th job, the config with the id the job refers to, the operation, arch and
\* num_cu of the session, the kwargs and the attribute list of the result
\* table, in which insert_ts and update_ts do not occur.
C30_ContextPerPair ==
  (built.pc = "built" /\ built.res.raised = "none") =>
    LET cs == built.res.contexts
    IN  /\ Len(cs) = Len(built.batch)
        /\ \A i \in DOMAIN cs :
             /\ cs[i].job = built.batch[i]
             /\ cs[i].config.id = built.batch[i].config
             /\ cs[i].operation = built.operation
             /\ cs[i].arch = built.session.arch
             /\ cs[i].num_cu = built.session.num_cu
             /\ cs[i].kwargs = get_context_items
             /\ Len(cs[i].fdb_attr) = Len(FindDbColumns) - 2
             /\ \A k \in DOMAIN cs[i].fdb_attr :
                  cs[i].fdb_attr[k] \notin {"insert_ts", "update_ts"}

\* contexts were built for a batch of jobs that is not in the order of the
\* job ids and refers to two configs
C30_Witness ==
  /\ built.pc = "built" /\ built.res.raised = "none"
  /\ Len(built.res.contexts) >= 2
  /\ built.res.contexts[1].job.id > built.res.contexts[2].job.id
  /\ built.res.contexts[1].config.id # built.res.contexts[2].config.id

\* C37: a claimed job whose config is not valid is in no context, and every
\* claimed job whose config is valid is in one, whatever other jobs the batch
\* holds.
C37_InvalidConfigExcluded ==
  built.pc = "built" =>
    LET cs == built.res.contexts
    IN  /\ \A k \in DOMAIN cs : built.cfg_valid[cs[k].job.config] = 1
        /\ \A i \in DOMAIN built.batch :
             built.cfg_valid[built.batch[i].config] = 1
               => \E k \in DOMAIN cs : cs[k].job = built.batch[i]

\* =================================================================
\* Properties of session_retry (checked under SpecRetry)
\* =================================================================
\* the contention errors
Transient == {"OperationalError", "pymysql_OperationalError"}

Count(log, e) == Cardinality({k \in DOMAIN log : log[k] = e})

\* the calls that end the loop: those that do not meet a contention error
Ending(outs) == {i \in 1..NUM_SQL_RETRIES : outs[i] \notin Transient}

\* the first of them
FirstEnding(outs) == CHOOSE i \in Ending(outs) : \A k \in Ending(outs) : i <= k

Returned == sr.pc = "done"

\* C22: session_retry calls the operation at most NUM_SQL_RETRIES times; the
\* first call that returns ends the loop and its value (True, with the row it
\* inserted or skipped) is what session_retry returns; every call that met a
\* contention error is followed by a rollback, before the next call; when all
\* calls met one, session_retry returns False after the last rollback; and no
\* contention error leaves session_retry.
C22_BoundedSqlRetry ==
  Returned =>
    LET r == sr.res
        outs == sr.outs
        log == r.log
    IN  /\ Count(log, "call") <= NUM_SQL_RETRIES
        /\ r.raised \notin Transient
        /\ \A k \in DOMAIN log :
             /\ (log[k] = "call" /\ outs[(k + 1) \div 2] \in Transient) =>
                  (k < Len(log) /\ log[k + 1] = "rollback")
             /\ (log[k] = "rollback" /\ k < Len(log)) => log[k + 1] = "call"
        /\ (Ending(outs) # {} /\ outs[FirstEnding(outs)] \in {"inserted", "bad_data"}) =>
             /\ r.ret /\ r.raised = "none"
             /\ r.row = (outs[FirstEnding(outs)] = "inserted")
             /\ Count(log, "call") = FirstEnding(outs)
             /\ log[Len(log)] = "call"
        /\ Ending(outs) = {} =>
             /\ ~r.ret /\ r.raised = "none" /\ ~r.row
             /\ Count(log, "call") = NUM_SQL_RETRIES
             /\ Count(log, "rollback") = NUM_SQL_RETRIES
             /\ log[Len(log)] = "rollback"

\* every call met a contention error and session_retry has returned
C22_Witness ==
  /\ Returned /\ Ending(sr.outs) = {}
  /\ sr.outs[NUM_SQL_RETRIES + 1] = "inserted"

\* C23: an IntegrityError ends session_retry: the session is rolled back once
\* for it, False is returned, no row is inserted and the operation is not
\* called again, whatever the number of calls left.
C23_IntegrityAborts ==
  (Returned /\ Ending(sr.outs) # {} /\ sr.outs[FirstEnding(sr.outs)] = "IntegrityError") =>
    LET r == sr.res
        i == FirstEnding(sr.outs)
    IN  /\ ~r.ret /\ r.raised = "none" /\ ~r.row
        /\ Count(r.log, "call") = i
        /\ Count(r.log, "rollback") = i
        /\ Len(r.log) = 2 * i
        /\ r.log[2 * i - 1] = "call" /\ r.log[2 * i] = "rollback"

\* an IntegrityError in a call that is not the last one, which a later call
\* would not have met
C23_Witness ==
  /\ Returned
  /\ sr.outs[1] = "IntegrityError" /\ sr.outs[2] = "inserted"
  /\ Len(sr.res.log) = 2

\* =================================================================
\* Properties of add_jobs (checked under SpecLoad)
\* =================================================================
JobKey(r) == <<r.config, r.solver, r.session, r.fin_step>>
Loaded(l) == load.loader[l].pc = "done"

\* the pairs of res of loader l that have a job of its session and fin steps in
\* the table t
Had(l, t) ==
  {p \in Range(load.loader[l].args.res) :
     \E r \in t : /\ r.config = p.config /\ r.solver = p.solver
                  /\ r.session = load.loader[l].args.session_id
                  /\ r.fin_step = load.loader[l].args.fin_steps}

\* the rows loader l committed
Own(l) == {r \in load.tab : r.id \in load.loader[l].inserted}

\* C31: no two rows of the job table have the same (config, solver, session,
\* fin_step), also when two loaders run at once; add_jobs skips every pair of
\* its query that had a job of the session and fin steps when it looked, and a
\* run that starts after a run with the same arguments has returned inserts no
\* row and returns 0.
C31_NoDuplicateJob ==
  /\ \A r, q \in load.tab : JobKey(r) = JobKey(q) => r = q
  /\ \A l \in Loaders :
       Loaded(l) =>
         /\ Had(l, load.loader[l].before) \subseteq load.loader[l].skipped
         /\ \A k \in load.loader[l].after :
              load.loader[k].args = load.loader[l].args =>
                load.loader[l].counts = 0 /\ load.loader[l].inserted = {}

\* add_jobs ran a second time with the arguments of a run that had inserted
\* two jobs
C31_Witness ==
  \E l, k \in Loaders :
    /\ Loaded(l) /\ k \in load.loader[l].after
    /\ load.loader[k].args = load.loader[l].args
    /\ Cardinality(load.loader[k].inserted) >= 2
    /\ Cardinality(load.loader[l].skipped) >= 2

\* C38: the count add_jobs returns is the number of rows it committed, also
\* after the quick update failed and the jobs were added one by one: then
\* every pair of its query has exactly one job of the session and fin steps,
\* its own or the one that was there, the refused and the skipped pairs are
\* not counted, and every row it committed is new and valid.
C38_CountsCommitted ==
  \A l \in Loaders :
    Loaded(l) =>
      LET L == load.loader[l]
          mine == {[config |-> r.config, solver |-> r.solver] : r \in Own(l)}
      IN  /\ L.counts = Cardinality(Own(l))
          /\ Cardinality(Own(l)) = Cardinality(L.inserted)
          /\ \A r \in Own(l) :
               /\ r.state = "new" /\ r.valid = 1
               /\ r.session = L.args.session_id /\ r.fin_step = L.args.fin_steps
               /\ r.reason = L.args.label
          /\ Had(l, load.tab) = Range(L.args.res)
          /\ mine \cup L.refused \cup L.skipped = Range(L.args.res)
          /\ mine \cap (L.refused \cup L.skipped) = {}
          /\ Cardinality(mine) = Cardinality(Own(l))

\* the quick update of a loader failed; added one by one, one of its jobs was
\* refused and another committed
C38_Witness ==
  \E l \in Loaders :
    /\ Loaded(l) /\ load.loader[l].do_commit
    /\ load.loader[l].refused # {} /\ load.loader[l].counts >= 1

====
